---- MODULE Spec2Model ----
(***************************************************************************)
(* A model of the WebPipe parser and pretty-printer (src/dist/index.cjs,   *)
(* the second `Parser` class and the print/format functions after it).     *)
(*                                                                         *)
(* Source text is a sequence of one-character strings; offsets are         *)
(* 0-based as in the code (the character at offset i is text[i+1]).        *)
(* A parser object is a record p = [text, pos, diags, pranges, vranges,    *)
(* lets, describe, test, log]; every grammar method is an operator from p  *)
(* to a result record                                                      *)
(*   [ok, some, p, v, err]                                                 *)
(* ok = FALSE is a thrown exception (err names its class), ok = TRUE with  *)
(* some = FALSE is a returned null, and p is the parser object afterwards. *)
(* Optional AST fields are sequences of length 0 or 1.  Inner AST nodes    *)
(* carry no start/end fields; top-level declarations keep start, end and   *)
(* lineNumber.                                                             *)
(***************************************************************************)
EXTENDS Integers, Sequences, FiniteSets, TLC

VARIABLES source, text, pos, diagnostics, pipelineRanges, variableRanges,
          testLetVariables, currentDescribeName, currentTestName, program,
          attempts, raised, phase, printed, reparsed

vars == <<source, text, pos, diagnostics, pipelineRanges, variableRanges,
          testLetVariables, currentDescribeName, currentTestName, program,
          attempts, raised, phase, printed, reparsed>>

----------------------------------------------------------------------------
(* Characters *)

NL == "\n"
CR == "\r"
TAB == "\t"
DQ == "\""
BT == "BT"   \* the backtick character (not writable in a string literal here)
BS == "\\"
NUL == "NUL"

Lower == {"a","b","c","d","e","f","g","h","i","j","k","l","m","n","o","p","q",
          "r","s","t","u","v","w","x","y","z"}
Upper == {"A","B","C","D","E","F","G","H","I","J","K","L","M","N","O","P","Q",
          "R","S","T","U","V","W","X","Y","Z"}
Digit == {"0","1","2","3","4","5","6","7","8","9"}

IdentStart == Lower \cup Upper \cup {"_"}
IdentCont == Lower \cup Upper \cup Digit \cup {"_", "-"}
isIdentCont(ch) == ch \in IdentCont

InlineSpace == {" ", TAB, CR}
WhiteSpace == {" ", TAB, CR, NL}

----------------------------------------------------------------------------
(* Sequence helpers *)

Slice(t, a, b) == SubSeq(t, a + 1, b)

StartsWith(t, s, i) ==
  /\ i >= 0
  /\ i + Len(s) <= Len(t)
  /\ \A k \in 1..Len(s) : t[i + k] = s[k]

CharAt(t, i) == IF i >= 0 /\ i < Len(t) THEN t[i + 1] ELSE NUL

(* `while (i < len && text[i] in S) i++`: the first offset from i on whose
   character is not in S, the length of the text when there is none *)
ScanWhile(t, i, S) ==
  IF i >= Len(t) THEN i
  ELSE CHOOSE e \in i..Len(t) :
         /\ \A j \in (i + 1)..e : t[j] \in S
         /\ e < Len(t) => t[e + 1] \notin S

(* `while (i < len && text[i] not in S) i++` *)
ScanUntil(t, i, S) ==
  IF i >= Len(t) THEN i
  ELSE CHOOSE e \in i..Len(t) :
         /\ \A j \in (i + 1)..e : t[j] \notin S
         /\ e < Len(t) => t[e + 1] \in S

RECURSIVE Flatten(_)
Flatten(ss) == IF ss = <<>> THEN <<>> ELSE Head(ss) \o Flatten(Tail(ss))

RECURSIVE JoinWith(_, _)
JoinWith(ss, sep) ==
  IF ss = <<>> THEN <<>>
  ELSE IF Len(ss) = 1 THEN Head(ss)
  ELSE Head(ss) \o sep \o JoinWith(Tail(ss), sep)

CountOf(t, ch) == Cardinality({i \in 1..Len(t) : t[i] = ch})

TrimLeft(t) == Slice(t, ScanWhile(t, 0, WhiteSpace), Len(t))

TrimRight(t) ==
  SubSeq(t, 1, CHOOSE e \in 0..Len(t) :
                 /\ \A j \in (e + 1)..Len(t) : t[j] \in WhiteSpace
                 /\ e > 0 => t[e] \notin WhiteSpace)

Trim(t) == TrimRight(TrimLeft(t))

----------------------------------------------------------------------------
(* Parser object and results *)

NewParser(t) ==
  [text |-> t, pos |-> 0, diags |-> <<>>, pranges |-> {}, vranges |-> {},
   lets |-> <<>>, describe |-> <<>>, test |-> <<>>, log |-> <<>>]

Ok(p, v) == [ok |-> TRUE, some |-> TRUE, p |-> p, v |-> v, err |-> "none"]
Null(p) == [ok |-> TRUE, some |-> FALSE, p |-> p, v |-> <<>>, err |-> "none"]
Fail(p, e) == [ok |-> FALSE, some |-> FALSE, p |-> p, v |-> <<>>, err |-> e]

At(p, i) == [p EXCEPT !.pos = i]

report(p, message, start, end, severity) ==
  [p EXCEPT !.diags = Append(@, [message |-> message, start |-> start,
                                 end |-> end, severity |-> severity])]

findLineStart(p, at) ==
  LET lo == IF at < Len(p.text) THEN at ELSE Len(p.text)
      i0 == IF lo > 0 THEN lo ELSE 0
  IN CHOOSE i \in 0..i0 :
       /\ \A j \in (i + 1)..i0 : p.text[j] # NL
       /\ i > 0 => p.text[i] = NL

findLineEnd(p, at) ==
  LET lo == IF at < Len(p.text) THEN at ELSE Len(p.text)
  IN ScanUntil(p.text, IF lo > 0 THEN lo ELSE 0, {NL})

getLineNumber(p, at) == CountOf(Slice(p.text, 0, at), NL) + 1

eof(p) == p.pos >= Len(p.text)
cur(p) == CharAt(p.text, p.pos)

(* mutants of tryParse: one that catches ParseFailure only and lets any other
   exception through, one that does not put the cursor back *)
tryParse_ParseFailureOnly(p0, r) ==
  IF r.ok /\ r.some THEN r
  ELSE IF r.ok THEN Null(r.p)
  ELSE IF r.err # "ParseFailure" THEN r
  ELSE Null([r.p EXCEPT !.pos = p0.pos])

tryParse_NoRestore(p0, r) ==
  LET entry == [save |-> p0.pos, failedAt |-> r.p.pos, after |-> r.p.pos,
                threw |-> ~r.ok, err |-> r.err]
  IN IF r.ok /\ r.some THEN r
     ELSE Null([r.p EXCEPT !.log = Append(@, entry)])

(* tryParse: run fn from p0 (r is its outcome); a throw of any class is     *)
(* caught, the cursor (and only the cursor) is put back, null is returned.  *)
(* log records every attempt that threw or returned null.                   *)
tryParse(p0, r) ==
  LET entry(after) == [save |-> p0.pos, failedAt |-> r.p.pos, after |-> after,
                       threw |-> ~r.ok, err |-> r.err]
  IN IF r.ok /\ r.some THEN r
     ELSE IF r.ok THEN Null([r.p EXCEPT !.log = Append(@, entry(r.p.pos))])
     ELSE Null([r.p EXCEPT !.pos = p0.pos, !.log = Append(@, entry(p0.pos))])

(* `if (this.cur() === "\n") this.pos++`, on the offset e *)
PastNewline(t, e) == IF CharAt(t, e) = NL THEN e + 1 ELSE e

(* the loop of skipSpaces from the offset i: white space, then, at a comment,
   skipToEol, the line end, and the next turn *)
RECURSIVE skipSpacesFrom(_, _)
skipSpacesComment(t, j) ==
  IF StartsWith(t, <<"#">>, j) \/ StartsWith(t, <<"/", "/">>, j)
  THEN skipSpacesFrom(t, PastNewline(t, ScanUntil(t, j, {NL})))
  ELSE j

skipSpacesFrom(t, i) == skipSpacesComment(t, ScanWhile(t, i, WhiteSpace))

(* mutant of skipSpaces: comments are not skipped *)
skipSpaces_NoComments(p) == At(p, ScanWhile(p.text, p.pos, WhiteSpace))

skipSpaces(p) == At(p, skipSpacesFrom(p.text, p.pos))

skipWhitespaceOnly(p) == At(p, ScanWhile(p.text, p.pos, WhiteSpace))
skipInlineSpaces(p) == At(p, ScanWhile(p.text, p.pos, InlineSpace))
skipToEol(p) == At(p, ScanUntil(p.text, p.pos, {NL}))

(* match(str): TRUE and the cursor moved past str, or FALSE and no move *)
match(p, s) == StartsWith(p.text, s, p.pos)
expect(p, s) ==
  IF match(p, s) THEN Ok(At(p, p.pos + Len(s)), <<>>) ELSE Fail(p, "ParseFailure")

parseIdentifier(p) ==
  IF cur(p) \notin IdentStart THEN Fail(p, "ParseFailure")
  ELSE LET e == ScanWhile(p.text, p.pos + 1, IdentCont)
       IN Ok(At(p, e), Slice(p.text, p.pos, e))

DigitVal(ch) == CHOOSE n \in 0..9 : ch = <<"0","1","2","3","4","5","6","7","8","9">>[n + 1]

RECURSIVE parseInt(_)
parseInt(ds) ==
  IF ds = <<>> THEN 0 ELSE parseInt(SubSeq(ds, 1, Len(ds) - 1)) * 10 + DigitVal(ds[Len(ds)])

RECURSIVE NumberToString(_)
NumberToString(n) ==
  LET d == <<<<"0">>,<<"1">>,<<"2">>,<<"3">>,<<"4">>,<<"5">>,<<"6">>,<<"7">>,<<"8">>,<<"9">>>>[(n % 10) + 1]
  IN IF n < 10 THEN d ELSE NumberToString(n \div 10) \o d

parseNumber(p) ==
  LET e == ScanWhile(p.text, p.pos, Digit)
  IN IF e = p.pos THEN Fail(p, "ParseFailure")
     ELSE Ok(At(p, e), parseInt(Slice(p.text, p.pos, e)))

Delimited(p, q) ==
  LET a == expect(p, <<q>>)
  IN IF ~a.ok THEN a
     ELSE LET e == ScanUntil(p.text, a.p.pos, {q})
              b == expect(At(a.p, e), <<q>>)
          IN IF ~b.ok THEN b ELSE Ok(b.p, Slice(p.text, a.p.pos, e))

parseQuotedString(p) == Delimited(p, DQ)
parseBacktickString(p) == Delimited(p, BT)

----------------------------------------------------------------------------
(* Keywords *)

PF == "ParseFailure"

KwPipe == <<"|", ">">>
KwAnd == <<"a","n","d">>
KwOr == <<"o","r">>
KwResult == <<"r","e","s","u","l","t">>
KwIf == <<"i","f">>
KwThen == <<"t","h","e","n",":">>
KwElse == <<"e","l","s","e",":">>
KwEnd == <<"e","n","d">>
KwDispatch == <<"d","i","s","p","a","t","c","h">>
KwCase == <<"c","a","s","e">>
KwDefault == <<"d","e","f","a","u","l","t">>
KwDefaultColon == <<"d","e","f","a","u","l","t",":">>
KwForeach == <<"f","o","r","e","a","c","h">>
KwOk == <<"o","k">>
KwJoin == <<"j","o","i","n">>
KwSlashes == <<"/","/">>

----------------------------------------------------------------------------
(* Step config, tags and tag expressions *)

(* this.<method>(): the method of that name, run on the parser p *)
RECURSIVE this(_, _)

parseStepConfig(p) ==
  LET bt == tryParse(p, this("parseBacktickString", p))
      dq == tryParse(bt.p, this("parseQuotedString", bt.p))
      id == tryParse(dq.p, this("parseIdentifier", dq.p))
  IN IF bt.some THEN Ok(bt.p, [config |-> bt.v, configType |-> "backtick"])
     ELSE IF dq.some THEN Ok(dq.p, [config |-> dq.v, configType |-> "quoted"])
     ELSE IF id.some THEN Ok(id.p, [config |-> id.v, configType |-> "identifier"])
     ELSE Fail(id.p, PF)

parseTagArgument(p) ==
  LET bt == tryParse(p, this("parseBacktickString", p))
  IN IF bt.some THEN bt ELSE this("parseIdentifier", bt.p)

(* the while loop of parseTagArgs and its closing expect(")") *)
RECURSIVE parseTagArgsLoop(_, _)
parseTagArgsLoop(p, args) ==
  IF cur(p) = ","
  THEN LET q == skipInlineSpaces(At(p, p.pos + 1))
           a == this("parseTagArgument", q)
       IN IF cur(q) = ")" THEN Fail(q, PF)
          ELSE IF ~a.ok THEN a
          ELSE parseTagArgsLoop(skipInlineSpaces(a.p), Append(args, a.v))
  ELSE LET e == expect(p, <<")">>)
       IN IF ~e.ok THEN e ELSE Ok(e.p, args)

(* mutant of parseTagArgs: empty parentheses are an empty argument list *)
parseTagArgs_AllowEmpty(p) ==
  LET o == expect(p, <<"(">>)
      q == skipInlineSpaces(o.p)
      a == this("parseTagArgument", q)
  IN IF ~o.ok THEN o
     ELSE IF cur(q) = ")" THEN Ok(At(q, q.pos + 1), <<>>)
     ELSE IF ~a.ok THEN a
     ELSE parseTagArgsLoop(skipInlineSpaces(a.p), <<a.v>>)

parseTagArgs(p) ==
  LET o == expect(p, <<"(">>)
      q == skipInlineSpaces(o.p)
      a == this("parseTagArgument", q)
  IN IF ~o.ok THEN o
     ELSE IF cur(q) = ")" THEN Fail(q, PF)
     ELSE IF ~a.ok THEN a
     ELSE parseTagArgsLoop(skipInlineSpaces(a.p), <<a.v>>)

parseTag(p) ==
  LET a == expect(p, <<"@">>)
      negated == cur(a.p) = "!"
      q == IF negated THEN At(a.p, a.p.pos + 1) ELSE a.p
      name == this("parseIdentifier", q)
      args == IF cur(name.p) = "(" THEN this("parseTagArgs", name.p) ELSE Ok(name.p, <<>>)
  IN IF ~a.ok THEN a
     ELSE IF ~name.ok THEN name
     ELSE IF ~args.ok THEN args
     ELSE Ok(args.p, [name |-> name.v, negated |-> negated, args |-> args.v])

RECURSIVE parseOrExprLoop(_, _), parseAndExprLoop(_, _)

parseTagPrimary(p) ==
  IF cur(p) = "("
  THEN LET e == this("parseTagExpr", skipInlineSpaces(At(p, p.pos + 1)))
           c == expect(skipInlineSpaces(e.p), <<")">>)
       IN IF ~e.ok THEN e ELSE IF ~c.ok THEN c ELSE Ok(c.p, e.v)
  ELSE LET t == this("parseTag", p)
       IN IF ~t.ok THEN t ELSE Ok(t.p, [kind |-> "Tag", tag |-> t.v])

(* mutant of parseAndExprLoop: `and` is an operator whatever follows it *)
parseAndExprLoop_AnyFollower(p, left) ==
  LET q == skipInlineSpaces(p)
      r == this("parseTagPrimary", skipInlineSpaces(At(q, q.pos + 3)))
  IN IF StartsWith(q.text, KwAnd, q.pos)
     THEN IF ~r.ok THEN r
          ELSE parseAndExprLoop(r.p, [kind |-> "And", left |-> left, right |-> r.v])
     ELSE Ok(p, left)

(* one turn of the while loop of parseAndExpr; p.pos is `saved` *)
parseAndExprLoop(p, left) ==
  LET q == skipInlineSpaces(p)
      r == this("parseTagPrimary", skipInlineSpaces(At(q, q.pos + 3)))
  IN IF StartsWith(q.text, KwAnd, q.pos) /\ ~isIdentCont(CharAt(q.text, q.pos + 3))
     THEN IF ~r.ok THEN r
          ELSE parseAndExprLoop(r.p, [kind |-> "And", left |-> left, right |-> r.v])
     ELSE Ok(p, left)

(* mutant of parseAndExpr: no `and` chain, one operand only *)
parseAndExpr_PrimaryOnly(p) == this("parseTagPrimary", p)

parseAndExpr(p) ==
  LET l == this("parseTagPrimary", p)
  IN IF ~l.ok THEN l ELSE parseAndExprLoop(l.p, l.v)

(* one turn of the while loop of parseOrExpr; p.pos is `saved` *)
parseOrExprLoop(p, left) ==
  LET q == skipInlineSpaces(p)
      r == this("parseAndExpr", skipInlineSpaces(At(q, q.pos + 2)))
  IN IF StartsWith(q.text, KwOr, q.pos) /\ ~isIdentCont(CharAt(q.text, q.pos + 2))
     THEN IF ~r.ok THEN r
          ELSE parseOrExprLoop(r.p, [kind |-> "Or", left |-> left, right |-> r.v])
     ELSE Ok(p, left)

parseOrExpr(p) ==
  LET l == this("parseAndExpr", p)
  IN IF ~l.ok THEN l ELSE parseOrExprLoop(l.p, l.v)

parseTagExpr(p) == this("parseOrExpr", p)

(* mutant of parseStepConditionLoop: the loop leaves at its first turn *)
parseStepConditionLoop_FirstOnly(p, expr) == Ok(skipInlineSpaces(p), <<expr>>)

(* the implicit-AND while loop of parseStepCondition *)
RECURSIVE parseStepConditionLoop(_, _)
(* mutant of parseStepConditionLoop: a bare tag is folded into the last
   operand of an Or *)
parseStepConditionLoop_WrapLast(p, expr) ==
  LET q == skipInlineSpaces(p)
      ch2 == cur(q)
      t == this("parseTag", q)
      tag == [kind |-> "Tag", tag |-> t.v]
  IN IF ch2 = NL \/ ch2 = CR \/ ch2 = "#" \/ StartsWith(q.text, KwSlashes, q.pos)
     THEN Ok(q, <<expr>>)
     ELSE IF ch2 # "@" THEN Ok(q, <<expr>>)
     ELSE IF ~t.ok THEN t
     ELSE parseStepConditionLoop(t.p, IF expr.kind = "Or"
                                      THEN [kind |-> "Or", left |-> expr.left,
                                            right |-> [kind |-> "And", left |-> expr.right,
                                                       right |-> tag]]
                                      ELSE [kind |-> "And", left |-> expr, right |-> tag])

parseStepConditionLoop(p, expr) ==
  LET q == skipInlineSpaces(p)
      ch2 == cur(q)
      t == this("parseTag", q)
  IN IF ch2 = NL \/ ch2 = CR \/ ch2 = "#" \/ StartsWith(q.text, KwSlashes, q.pos)
     THEN Ok(q, <<expr>>)
     ELSE IF ch2 # "@" THEN Ok(q, <<expr>>)
     ELSE IF ~t.ok THEN t
     ELSE parseStepConditionLoop(t.p, [kind |-> "And", left |-> expr,
                                       right |-> [kind |-> "Tag", tag |-> t.v]])

parseStepCondition(p) ==
  LET q == skipInlineSpaces(p)
      e == this("parseTagExpr", q)
  IN IF cur(q) # "@" /\ cur(q) # "(" THEN Ok(q, <<>>)
     ELSE IF ~e.ok THEN e
     ELSE parseStepConditionLoop(e.p, e.v)

----------------------------------------------------------------------------
(* Inline arguments *)

(* mutant of Openers: only `(` opens a nested bracket *)
Openers_ParenOnly == {"("}

Openers == {"(", "[", "{"}
Closers == {")", "]", "}"}

(* one turn of the for loop of splitBalancedArgs, on the character ch *)
splitBalancedArgsStep(st, ch) ==
  LET inString == st.stringChar # ""
      add == [st EXCEPT !.current = Append(@, ch), !.escapeNext = FALSE]
  IN IF st.escapeNext THEN add
     ELSE IF ch = BS /\ inString THEN [add EXCEPT !.escapeNext = TRUE]
     ELSE IF (ch = DQ \/ ch = BT) /\ ~inString THEN [add EXCEPT !.stringChar = ch]
     ELSE IF ch = st.stringChar /\ inString THEN [add EXCEPT !.stringChar = ""]
     ELSE IF inString THEN add
     ELSE IF ch \in Openers THEN [add EXCEPT !.depth = @ + 1]
     ELSE IF ch \in Closers THEN [add EXCEPT !.depth = @ - 1]
     ELSE IF ch = "," /\ st.depth = 0
          THEN [st EXCEPT !.args = Append(@, Trim(st.current)), !.current = <<>>]
     ELSE add

(* the turns lo..hi of the for loop, in order, from the state st: the turns
   up to the middle one (their outcome `half` is computed first), then the
   turns after it *)
RECURSIVE splitBalancedArgsLoop(_, _, _, _)
splitBalancedArgsLoop(content, lo, hi, st) ==
  LET mid == (lo + hi) \div 2
      half == splitBalancedArgsLoop(content, lo, mid, st)
  IN IF lo > hi THEN st
     ELSE IF lo = hi THEN splitBalancedArgsStep(st, content[lo])
     ELSE IF half.depth = half.depth
     THEN splitBalancedArgsLoop(content, mid + 1, hi, half)
     ELSE st

(* splitBalancedArgs: the for loop, then the trailing push *)
splitBalancedArgs(content) ==
  LET st == splitBalancedArgsLoop(content, 1, Len(content),
              [args |-> <<>>, current |-> <<>>, depth |-> 0, stringChar |-> "",
               escapeNext |-> FALSE])
  IN IF Len(Trim(st.current)) > 0 THEN Append(st.args, Trim(st.current)) ELSE st.args

(* one turn of the while loop of parseInlineArgs; the loop is over when the
   cursor is at the end of the text or depth is 0 *)
parseInlineArgsStep(t, openChar, closeChar, st) ==
  LET c == CharAt(t, st.pos)
      inString == st.stringChar # ""
      on == [st EXCEPT !.pos = @ + 1, !.escapeNext = FALSE]
  IN IF st.pos >= Len(t) \/ st.depth <= 0 THEN st
     ELSE IF st.escapeNext THEN on
     ELSE IF c = BS /\ inString THEN [on EXCEPT !.escapeNext = TRUE]
     ELSE IF (c = DQ \/ c = BT) /\ ~inString THEN [on EXCEPT !.stringChar = c]
     ELSE IF c = st.stringChar /\ inString THEN [on EXCEPT !.stringChar = ""]
     ELSE IF ~inString /\ c = openChar THEN [on EXCEPT !.depth = @ + 1]
     ELSE IF ~inString /\ c = closeChar
          THEN (IF st.depth - 1 = 0 THEN [st EXCEPT !.depth = 0]
                ELSE [on EXCEPT !.depth = @ - 1])
     ELSE on

(* n turns of the while loop, in order, from the state st: the first half of
   them (their outcome `half` is computed first), then the others unless the
   loop is over *)
RECURSIVE parseInlineArgsScan(_, _, _, _, _)
parseInlineArgsScan(t, openChar, closeChar, n, st) ==
  LET half == parseInlineArgsScan(t, openChar, closeChar, n \div 2, st)
  IN IF n <= 0 THEN st
     ELSE IF n = 1 THEN parseInlineArgsStep(t, openChar, closeChar, st)
     ELSE IF half.pos >= Len(t) \/ half.depth <= 0 THEN half
     ELSE parseInlineArgsScan(t, openChar, closeChar, n - (n \div 2), half)

parseInlineArgs(p) ==
  LET q == skipInlineSpaces(p)
      openChar == cur(q)
      closeChar == IF openChar = "(" THEN ")" ELSE "]"
      contentStart == q.pos + 1
      s == parseInlineArgsScan(p.text, openChar, closeChar, Len(p.text) - contentStart,
                               [pos |-> contentStart, depth |-> 1, stringChar |-> "",
                                escapeNext |-> FALSE])
      argsContent == Slice(p.text, contentStart, s.pos)
  IN IF openChar # "(" /\ openChar # "[" THEN Ok(p, <<>>)
     ELSE IF s.depth # 0 THEN Fail(At(q, s.pos), PF)
     ELSE IF Len(Trim(argsContent)) = 0 THEN Ok(At(q, s.pos + 1), <<>>)
     ELSE Ok(At(q, s.pos + 1), splitBalancedArgs(argsContent))

(* parseJoinTaskNames, for a config that is a comma list (a config starting  *)
(* with "[" goes through JSON.parse, which is not modelled: no input here    *)
(* gives a join step such a config)                                          *)
RECURSIVE SplitOn(_, _)
SplitOn(t, ch) ==
  LET e == ScanUntil(t, 0, {ch})
  IN IF e >= Len(t) THEN <<t>> ELSE <<Slice(t, 0, e)>> \o SplitOn(Slice(t, e + 1, Len(t)), ch)

parseJoinTaskNames(config) ==
  LET parts == SplitOn(Trim(config), ",")
      names == SelectSeq([k \in 1..Len(parts) |-> Trim(parts[k])], LAMBDA s : Len(s) > 0)
  IN IF names = <<>> THEN <<>> ELSE <<names>>

----------------------------------------------------------------------------
(* Pipelines and steps *)

StatusMin == 100
StatusMax == 599

Pipeline(steps) == [steps |-> steps]

RECURSIVE parseResultStepLoop(_, _), parseDispatchStepLoop(_, _),
          parseIfPipeline(_, _), parseIfPipelineLoop(_, _, _), parsePipelineLoop(_, _)

parseRegularStep(p) ==
  LET a == expect(skipWhitespaceOnly(p), KwPipe)
      name == this("parseIdentifier", skipInlineSpaces(a.p))
      args == this("parseInlineArgs", name.p)
      r == skipInlineSpaces(args.p)
      cfg == IF cur(r) = ":"
             THEN this("parseStepConfig", skipInlineSpaces(At(r, r.pos + 1)))
             ELSE Ok(r, [config |-> <<>>, configType |-> "quoted"])
      cond == this("parseStepCondition", cfg.p)
  IN IF ~a.ok THEN a
     ELSE IF ~name.ok THEN name
     ELSE IF ~args.ok THEN args
     ELSE IF ~cfg.ok THEN cfg
     ELSE IF ~cond.ok THEN cond
     ELSE Ok(skipWhitespaceOnly(cond.p),
             [kind |-> "Regular", name |-> name.v, args |-> args.v,
              config |-> cfg.v.config, configType |-> cfg.v.configType,
              condition |-> cond.v,
              parsedJoinTargets |-> IF name.v = KwJoin
                                    THEN parseJoinTaskNames(cfg.v.config) ELSE <<>>])

parseResultBranch(p) ==
  LET id == this("parseIdentifier", skipSpaces(p))
      branchType == IF id.v = KwOk THEN [kind |-> "Ok"]
                    ELSE IF id.v = KwDefault THEN [kind |-> "Default"]
                    ELSE [kind |-> "Custom", name |-> id.v]
      o == expect(id.p, <<"(">>)
      n == this("parseNumber", o.p)
      q == IF n.v < StatusMin \/ n.v > StatusMax
           THEN report(n.p, "Invalid HTTP status code",
                       n.p.pos - Len(NumberToString(n.v)), n.p.pos, "error")
           ELSE n.p
      c == expect(q, <<")">>)
      d == expect(c.p, <<":">>)
      pl == this("parsePipeline", skipSpaces(d.p))
  IN IF ~id.ok THEN id
     ELSE IF ~o.ok THEN o
     ELSE IF ~n.ok THEN n
     ELSE IF ~c.ok THEN c
     ELSE IF ~d.ok THEN d
     ELSE IF ~pl.ok THEN pl
     ELSE Ok(pl.p, [branchType |-> branchType, statusCode |-> n.v, pipeline |-> pl.v])

parseResultStepLoop(p, branches) ==
  LET br == tryParse(p, this("parseResultBranch", p))
  IN IF ~br.some THEN Ok(br.p, [kind |-> "Result", branches |-> branches])
     ELSE parseResultStepLoop(br.p, Append(branches, br.v))

parseResultStep(p) ==
  LET a == expect(skipWhitespaceOnly(p), KwPipe)
      b == expect(skipInlineSpaces(a.p), KwResult)
  IN IF ~a.ok THEN a
     ELSE IF ~b.ok THEN b
     ELSE parseResultStepLoop(skipWhitespaceOnly(b.p), <<>>)

(* the optional `else:` branch of parseIfStep (the body of its tryParse) *)
parseElseBranch(p) ==
  LET e == expect(p, KwElse)
  IN IF ~e.ok THEN e ELSE parseIfPipeline(skipSpaces(e.p), <<KwEnd>>)

(* the optional `end` of parseIfStep / parseDispatchStep *)
(* mutant of parseOptionalEnd: the `end` is left where it is *)
parseOptionalEnd_Skipped(p) == p

parseOptionalEnd(p) == tryParse(p, expect(p, KwEnd)).p

parseIfStep(p) ==
  LET a == expect(skipWhitespaceOnly(p), KwPipe)
      b == expect(skipInlineSpaces(a.p), KwIf)
      condition == parseIfPipeline(skipSpaces(b.p), <<KwThen>>)
      t == expect(skipSpaces(condition.p), KwThen)
      thenBranch == parseIfPipeline(skipSpaces(t.p), <<KwElse, KwEnd>>)
      q == skipSpaces(thenBranch.p)
      elseBranch == tryParse(q, this("parseElseBranch", q))
      z == parseOptionalEnd(skipSpaces(elseBranch.p))
  IN IF ~a.ok THEN a
     ELSE IF ~b.ok THEN b
     ELSE IF ~condition.ok THEN condition
     ELSE IF ~t.ok THEN t
     ELSE IF ~thenBranch.ok THEN thenBranch
     ELSE IF ~elseBranch.ok THEN elseBranch
     ELSE Ok(z, [kind |-> "If", condition |-> condition.v, thenBranch |-> thenBranch.v,
                 elseBranch |-> IF elseBranch.some THEN <<elseBranch.v>> ELSE <<>>])

parseDispatchBranch(p) ==
  LET a == expect(skipSpaces(p), KwCase)
      condition == this("parseTagExpr", skipInlineSpaces(a.p))
      c == expect(skipInlineSpaces(condition.p), <<":">>)
      pl == parseIfPipeline(skipSpaces(c.p), <<KwCase, KwDefaultColon, KwEnd>>)
  IN IF ~a.ok THEN a
     ELSE IF ~condition.ok THEN condition
     ELSE IF ~c.ok THEN c
     ELSE IF ~pl.ok THEN pl
     ELSE Ok(pl.p, [condition |-> condition.v, pipeline |-> pl.v])

(* the optional `default:` branch of parseDispatchStep (the body of its tryParse) *)
parseDefaultBranch(p) ==
  LET e == expect(p, KwDefaultColon)
  IN IF ~e.ok THEN e ELSE parseIfPipeline(skipSpaces(e.p), <<KwEnd>>)

parseDispatchStepLoop(p, branches) ==
  LET br == tryParse(p, this("parseDispatchBranch", p))
      defaultBranch == tryParse(br.p, this("parseDefaultBranch", br.p))
      z == parseOptionalEnd(skipSpaces(defaultBranch.p))
  IN IF br.some THEN parseDispatchStepLoop(skipSpaces(br.p), Append(branches, br.v))
     ELSE IF ~defaultBranch.ok THEN defaultBranch
     ELSE Ok(z, [kind |-> "Dispatch", branches |-> branches,
                 default |-> IF defaultBranch.some THEN <<defaultBranch.v>> ELSE <<>>])

parseDispatchStep(p) ==
  LET a == expect(skipWhitespaceOnly(p), KwPipe)
      b == expect(skipInlineSpaces(a.p), KwDispatch)
  IN IF ~a.ok THEN a
     ELSE IF ~b.ok THEN b
     ELSE parseDispatchStepLoop(skipSpaces(b.p), <<>>)

parseForeachStep(p) ==
  LET a == expect(skipWhitespaceOnly(p), KwPipe)
      b == expect(skipInlineSpaces(a.p), KwForeach)
      q == skipInlineSpaces(b.p)
      e == ScanUntil(q.text, q.pos, {NL, "#"})
      selector == Trim(Slice(q.text, q.pos, e))
      pl == parseIfPipeline(skipSpaces(At(q, e)), <<KwEnd>>)
      z == expect(skipSpaces(pl.p), KwEnd)
  IN IF ~a.ok THEN a
     ELSE IF ~b.ok THEN b
     ELSE IF cur(b.p) # " " /\ cur(b.p) # TAB THEN Fail(b.p, PF)
     ELSE IF Len(selector) = 0 THEN Fail(At(q, e), PF)
     ELSE IF ~pl.ok THEN pl
     ELSE IF ~z.ok THEN z
     ELSE Ok(z.p, [kind |-> "Foreach", selector |-> selector, pipeline |-> pl.v])

parsePipelineStep(p) ==
  LET result == tryParse(p, this("parseResultStep", p))
      ifStep == tryParse(result.p, this("parseIfStep", result.p))
      dispatchStep == tryParse(ifStep.p, this("parseDispatchStep", ifStep.p))
      foreachStep == tryParse(dispatchStep.p, this("parseForeachStep", dispatchStep.p))
  IN IF result.some THEN result
     ELSE IF ifStep.some THEN ifStep
     ELSE IF dispatchStep.some THEN dispatchStep
     ELSE IF foreachStep.some THEN foreachStep
     ELSE this("parseRegularStep", foreachStep.p)

(* one turn of the while loop of parseIfPipeline; p.pos is `save` *)
parseIfPipelineLoop(p, stopKeywords, steps) ==
  LET q == skipSpaces(p)
      step == this("parsePipelineStep", q)
  IN IF \E k \in 1..Len(stopKeywords) : StartsWith(q.text, stopKeywords[k], q.pos)
     THEN Ok(p, Pipeline(steps))
     ELSE IF ~StartsWith(q.text, KwPipe, q.pos) THEN Ok(p, Pipeline(steps))
     ELSE IF ~step.ok THEN step
     ELSE parseIfPipelineLoop(step.p, stopKeywords, Append(steps, step.v))

parseIfPipeline(p, stopKeywords) == parseIfPipelineLoop(p, stopKeywords, <<>>)

(* one turn of the while loop of parsePipeline; p.pos is `save` *)
parsePipelineLoop(p, steps) ==
  LET q == skipSpaces(p)
      step == this("parsePipelineStep", q)
  IN IF ~StartsWith(q.text, KwPipe, q.pos) THEN Ok(p, Pipeline(steps))
     ELSE IF ~step.ok THEN step
     ELSE parsePipelineLoop(step.p, Append(steps, step.v))

parsePipeline(p) == parsePipelineLoop(p, <<>>)

----------------------------------------------------------------------------
(* Top-level declarations *)

KwConfig == <<"c","o","n","f","i","g">>
KwPipeline == <<"p","i","p","e","l","i","n","e">>
KwPipelineColon == <<"p","i","p","e","l","i","n","e",":">>
KwGraphqlSchema == <<"g","r","a","p","h","q","l","S","c","h","e","m","a">>
KwQuery == <<"q","u","e","r","y">>
KwMutation == <<"m","u","t","a","t","i","o","n">>
KwResolver == <<"r","e","s","o","l","v","e","r">>
KwFeatureFlags == <<"f","e","a","t","u","r","e","F","l","a","g","s">>
KwDescribe == <<"d","e","s","c","r","i","b","e">>
KwTrue == <<"t","r","u","e">>
KwFalse == <<"f","a","l","s","e">>
Methods == << <<"G","E","T">>, <<"P","O","S","T">>, <<"P","U","T">>,
              <<"D","E","L","E","T","E">> >>

(* the comment at p.pos, if one starts there: shared body of parseInlineComment
   and parseStandaloneComment *)
CommentAt(p, type, lineFrom) ==
  LET hash == StartsWith(p.text, <<"#">>, p.pos)
      from == IF hash THEN p.pos + 1 ELSE p.pos + 2
      e == ScanUntil(p.text, from, {NL})
  IN IF hash \/ StartsWith(p.text, KwSlashes, p.pos)
     THEN Ok(At(p, e), [type |-> type, text |-> Slice(p.text, from, e),
                        style |-> IF hash THEN <<"#">> ELSE KwSlashes,
                        lineNumber |-> getLineNumber(p, lineFrom)])
     ELSE Null(p)

parseInlineComment(p) ==
  LET q == skipInlineSpaces(p) IN CommentAt(q, "inline", q.pos)

parseStandaloneComment(p) == CommentAt(p, "standalone", p.pos)

Opt(r) == IF r.some THEN <<r.v>> ELSE <<>>

parseMethod(p) ==
  LET hits == {k \in 1..Len(Methods) : StartsWith(p.text, Methods[k], p.pos)}
      k == CHOOSE i \in hits : \A j \in hits : i <= j
  IN IF hits = {} THEN Fail(p, PF) ELSE Ok(At(p, p.pos + Len(Methods[k])), Methods[k])

parseEnvWithDefault(p) ==
  LET a == expect(p, <<"$">>)
      variable == this("parseIdentifier", a.p)
      b == expect(skipInlineSpaces(variable.p), <<"|", "|">>)
      def == this("parseQuotedString", skipInlineSpaces(b.p))
  IN IF ~a.ok THEN a
     ELSE IF ~variable.ok THEN variable
     ELSE IF ~b.ok THEN b
     ELSE IF ~def.ok THEN def
     ELSE Ok(def.p, [kind |-> "EnvVar", var |-> variable.v, default |-> <<def.v>>])

parseEnvNoDefault(p) ==
  LET a == expect(p, <<"$">>)
      variable == this("parseIdentifier", a.p)
  IN IF ~a.ok THEN a
     ELSE IF ~variable.ok THEN variable
     ELSE Ok(variable.p, [kind |-> "EnvVar", var |-> variable.v, default |-> <<>>])

parseBool(p) ==
  IF match(p, KwTrue) THEN Ok(At(p, p.pos + 4), TRUE)
  ELSE IF match(p, KwFalse) THEN Ok(At(p, p.pos + 5), FALSE)
  ELSE Fail(p, PF)

parseConfigValue(p) ==
  LET envWithDefault == tryParse(p, this("parseEnvWithDefault", p))
      envNoDefault == tryParse(envWithDefault.p, this("parseEnvNoDefault", envWithDefault.p))
      str == tryParse(envNoDefault.p, this("parseQuotedString", envNoDefault.p))
      bool == tryParse(str.p, this("parseBool", str.p))
      num == tryParse(bool.p, this("parseNumber", bool.p))
  IN IF envWithDefault.some THEN envWithDefault
     ELSE IF envNoDefault.some THEN envNoDefault
     ELSE IF str.some THEN Ok(str.p, [kind |-> "String", value |-> str.v])
     ELSE IF bool.some THEN Ok(bool.p, [kind |-> "Boolean", value |-> bool.v])
     ELSE IF num.some THEN Ok(num.p, [kind |-> "Number", value |-> num.v])
     ELSE Fail(num.p, PF)

parseConfigProperty(p) ==
  LET key == this("parseIdentifier", skipSpaces(p))
      c == expect(skipInlineSpaces(key.p), <<":">>)
      value == this("parseConfigValue", skipInlineSpaces(c.p))
  IN IF ~key.ok THEN key
     ELSE IF ~c.ok THEN c
     ELSE IF ~value.ok THEN value
     ELSE Ok(value.p, [key |-> key.v, value |-> value.v])

RECURSIVE parseConfigLoop(_, _)
parseConfigLoop(p, properties) ==
  LET prop == tryParse(p, this("parseConfigProperty", p))
  IN IF ~prop.some THEN Ok(prop.p, properties)
     ELSE parseConfigLoop(skipSpaces(prop.p), Append(properties, prop.v))

parseConfig(p) ==
  LET a == expect(p, KwConfig)
      name == this("parseIdentifier", skipInlineSpaces(a.p))
      b == expect(skipInlineSpaces(name.p), <<"{">>)
      inlineComment == this("parseInlineComment", b.p)
      props == parseConfigLoop(skipSpaces(inlineComment.p), <<>>)
      c == expect(skipSpaces(props.p), <<"}">>)
      z == skipWhitespaceOnly(c.p)
  IN IF ~a.ok THEN a
     ELSE IF ~name.ok THEN name
     ELSE IF ~b.ok THEN b
     ELSE IF ~c.ok THEN c
     ELSE Ok(z, [name |-> name.v, properties |-> props.v,
                 inlineComment |-> Opt(inlineComment), start |-> p.pos, end |-> z.pos])

(* mutant of MapSet: a key that is in the map keeps its range *)
MapSet_KeepFirst(m, key, start, end) ==
  IF \E e \in m : e.key = key THEN m
  ELSE m \cup {[key |-> key, start |-> start, end |-> end]}

MapSet(m, key, start, end) ==
  {e \in m : e.key # key} \cup {[key |-> key, start |-> start, end |-> end]}

parseNamedPipeline(p) ==
  LET a == expect(p, KwPipeline)
      name == this("parseIdentifier", skipInlineSpaces(a.p))
      b == expect(skipInlineSpaces(name.p), <<"=">>)
      inlineComment == this("parseInlineComment", b.p)
      pl == this("parsePipeline", skipInlineSpaces(inlineComment.p))
      q == [pl.p EXCEPT !.pranges = MapSet(@, name.v, p.pos, pl.p.pos)]
  IN IF ~a.ok THEN a
     ELSE IF ~name.ok THEN name
     ELSE IF ~b.ok THEN b
     ELSE IF ~pl.ok THEN pl
     ELSE Ok(skipWhitespaceOnly(q),
             [name |-> name.v, pipeline |-> pl.v, inlineComment |-> Opt(inlineComment),
              start |-> p.pos, end |-> pl.p.pos])

(* the Named alternative of parsePipelineRef (the body of its tryParse) *)
parseNamedRef(p) ==
  LET a == expect(skipWhitespaceOnly(p), KwPipe)
      b == expect(skipInlineSpaces(a.p), KwPipelineColon)
      name == this("parseIdentifier", skipInlineSpaces(b.p))
  IN IF ~a.ok THEN a
     ELSE IF ~b.ok THEN b
     ELSE IF ~name.ok THEN name
     ELSE Ok(name.p, [kind |-> "Named", name |-> name.v])

(* mutant of parsePipelineRef: the Named alternative is tried first *)
parsePipelineRef_NamedFirst(p) ==
  LET named == tryParse(p, this("parseNamedRef", p))
      inline == tryParse(named.p, this("parsePipeline", named.p))
  IN IF named.some THEN named
     ELSE IF inline.some /\ Len(inline.v.steps) > 0
     THEN Ok(inline.p, [kind |-> "Inline", pipeline |-> inline.v])
     ELSE Fail(inline.p, "Error")

parsePipelineRef(p) ==
  LET inline == tryParse(p, this("parsePipeline", p))
      named == tryParse(inline.p, this("parseNamedRef", inline.p))
  IN IF inline.some /\ Len(inline.v.steps) > 0
     THEN Ok(inline.p, [kind |-> "Inline", pipeline |-> inline.v])
     ELSE IF named.some THEN named
     ELSE Fail(named.p, "Error")

parseVariable(p) ==
  LET varType == this("parseIdentifier", p)
      name == this("parseIdentifier", skipInlineSpaces(varType.p))
      a == expect(skipInlineSpaces(name.p), <<"=">>)
      value == this("parseBacktickString", skipInlineSpaces(a.p))
      inlineComment == this("parseInlineComment", value.p)
      end == inlineComment.p.pos
      q == [inlineComment.p EXCEPT
              !.vranges = MapSet(@, varType.v \o <<":", ":">> \o name.v, p.pos, end)]
  IN IF ~varType.ok THEN varType
     ELSE IF ~name.ok THEN name
     ELSE IF ~a.ok THEN a
     ELSE IF ~value.ok THEN value
     ELSE Ok(skipWhitespaceOnly(q),
             [varType |-> varType.v, name |-> name.v, value |-> value.v,
              inlineComment |-> Opt(inlineComment), start |-> p.pos, end |-> end])

parseGraphQLSchema(p) ==
  LET a == expect(p, KwGraphqlSchema)
      b == expect(skipInlineSpaces(a.p), <<"=">>)
      inlineComment == this("parseInlineComment", b.p)
      sdl == this("parseBacktickString", skipInlineSpaces(inlineComment.p))
  IN IF ~a.ok THEN a
     ELSE IF ~b.ok THEN b
     ELSE IF ~sdl.ok THEN sdl
     ELSE Ok(skipWhitespaceOnly(sdl.p),
             [sdl |-> sdl.v, inlineComment |-> Opt(inlineComment),
              start |-> p.pos, end |-> sdl.p.pos])

(* parseQueryResolver and parseMutationResolver: the same body but for the keyword *)
parseNamedResolver(p, kw) ==
  LET a == expect(p, kw)
      name == this("parseIdentifier", skipInlineSpaces(a.p))
      b == expect(skipInlineSpaces(name.p), <<"=">>)
      inlineComment == this("parseInlineComment", b.p)
      pl == this("parsePipeline", skipWhitespaceOnly(inlineComment.p))
  IN IF ~a.ok THEN a
     ELSE IF ~name.ok THEN name
     ELSE IF ~b.ok THEN b
     ELSE IF ~pl.ok THEN pl
     ELSE Ok(skipWhitespaceOnly(pl.p),
             [name |-> name.v, pipeline |-> pl.v, inlineComment |-> Opt(inlineComment),
              start |-> p.pos, end |-> pl.p.pos])

parseQueryResolver(p) == parseNamedResolver(p, KwQuery)
parseMutationResolver(p) == parseNamedResolver(p, KwMutation)

parseTypeResolver(p) ==
  LET a == expect(p, KwResolver)
      typeName == this("parseIdentifier", skipInlineSpaces(a.p))
      d == expect(typeName.p, <<".">>)
      fieldName == this("parseIdentifier", d.p)
      b == expect(skipInlineSpaces(fieldName.p), <<"=">>)
      inlineComment == this("parseInlineComment", b.p)
      pl == this("parsePipeline", skipWhitespaceOnly(inlineComment.p))
  IN IF ~a.ok THEN a
     ELSE IF ~typeName.ok THEN typeName
     ELSE IF ~d.ok THEN d
     ELSE IF ~fieldName.ok THEN fieldName
     ELSE IF ~b.ok THEN b
     ELSE IF ~pl.ok THEN pl
     ELSE Ok(skipWhitespaceOnly(pl.p),
             [typeName |-> typeName.v, fieldName |-> fieldName.v, pipeline |-> pl.v,
              inlineComment |-> Opt(inlineComment), start |-> p.pos, end |-> pl.p.pos])

parseFeatureFlags(p) ==
  LET a == expect(p, KwFeatureFlags)
      b == expect(skipInlineSpaces(a.p), <<"=">>)
      pl == this("parsePipeline", skipWhitespaceOnly(b.p))
  IN IF ~a.ok THEN a
     ELSE IF ~b.ok THEN b
     ELSE IF ~pl.ok THEN pl
     ELSE Ok(skipWhitespaceOnly(pl.p), pl.v)

parseRoute(p) ==
  LET method == this("parseMethod", p)
      q == skipInlineSpaces(method.p)
      e == ScanUntil(q.text, q.pos, {" ", NL, "#"})
      inlineComment == this("parseInlineComment", At(q, e))
      ref == this("parsePipelineRef", skipSpaces(inlineComment.p))
  IN IF ~method.ok THEN method
     ELSE IF ~ref.ok THEN ref
     ELSE Ok(skipWhitespaceOnly(ref.p),
             [method |-> method.v, path |-> Slice(q.text, q.pos, e), pipeline |-> ref.v,
              inlineComment |-> Opt(inlineComment), start |-> p.pos, end |-> ref.p.pos])

(* Describe blocks: let bindings, mocks, it-blocks and their conditions *)

(* `tryParse(parseBacktickString)`, then `tryParse(parseQuotedString)`: the
   string, and which of the two it was; null when it is neither *)
parseEitherString(p) ==
  LET bt == tryParse(p, this("parseBacktickString", p))
      qt == tryParse(bt.p, this("parseQuotedString", bt.p))
  IN IF bt.some THEN Ok(bt.p, [value |-> bt.v, format |-> "backtick"])
     ELSE IF qt.some THEN Ok(qt.p, [value |-> qt.v, format |-> "quoted"])
     ELSE Null(qt.p)

(* the value of a condition: a string, or the rest of the line *)
parseValueOrLine(p) ==
  LET s == this("parseEitherString", p)
      e == ScanUntil(s.p.text, s.p.pos, {NL})
  IN IF s.some THEN Ok(s.p, s.v.value) ELSE Ok(At(s.p, e), Slice(s.p.text, s.p.pos, e))

(* a selector or an attribute name: a string, or the plain Error *)
parseRequiredString(p) ==
  LET s == this("parseEitherString", p)
  IN IF s.some THEN Ok(s.p, s.v.value) ELSE Fail(s.p, "Error")

(* the number of a let binding (the body of its tryParse) *)
parseLetNumber(p) ==
  LET e == ScanWhile(p.text, p.pos, Digit)
      f == ScanWhile(p.text, e + 1, Digit)
  IN IF e = p.pos THEN Fail(p, "Error")
     ELSE IF CharAt(p.text, e) # "." THEN Ok(At(p, e), Slice(p.text, p.pos, e))
     ELSE IF f = e + 1 THEN Fail(At(p, f), "Error")
     ELSE Ok(At(p, f), Slice(p.text, p.pos, f))

BareWords == <<<<"n","u","l","l">>, <<"t","r","u","e">>, <<"f","a","l","s","e">>>>

(* the value of a let binding and its format *)
parseLetValue(p) ==
  LET s == this("parseEitherString", p)
      hits == {k \in 1..Len(BareWords) : StartsWith(s.p.text, BareWords[k], s.p.pos)}
      k == CHOOSE i \in hits : \A j \in hits : i <= j
      num == tryParse(s.p, this("parseLetNumber", s.p))
  IN IF s.some THEN s
     ELSE IF hits # {}
     THEN Ok(At(s.p, s.p.pos + Len(BareWords[k])), [value |-> BareWords[k], format |-> "bare"])
     ELSE IF num.some THEN Ok(num.p, [value |-> num.v, format |-> "bare"])
     ELSE Fail(num.p, "Error")

(* `this.testLetVariables.push(...)` of parseLetBinding, for the name read
   from nameStart up to the cursor *)
pushLetVariable(p, name, nameStart) ==
  IF p.describe = <<>> THEN p
  ELSE [p EXCEPT !.lets = Append(@, [name |-> name, describeName |-> p.describe[1],
                                     testName |-> IF p.test = <<<<>>>> THEN <<>> ELSE p.test,
                                     start |-> nameStart, end |-> p.pos])]

parseLetBinding(p) ==
  LET a == expect(p, <<"l","e","t">>)
      q == skipInlineSpaces(a.p)
      name == this("parseIdentifier", q)
      b == expect(skipInlineSpaces(pushLetVariable(name.p, name.v, q.pos)), <<"=">>)
      value == this("parseLetValue", skipInlineSpaces(b.p))
  IN IF ~a.ok THEN a
     ELSE IF ~name.ok THEN name
     ELSE IF ~b.ok THEN b
     ELSE IF ~value.ok THEN value
     ELSE Ok(value.p, [name |-> name.v, value |-> value.v.value, format |-> value.v.format])

(* the target of a mock: `query NAME` and `mutation NAME` give TYPE.NAME *)
parseMockTarget(p) ==
  LET typed == StartsWith(p.text, <<"q","u","e","r","y"," ">>, p.pos) \/ StartsWith(p.text, <<"m","u","t","a","t","i","o","n"," ">>, p.pos)
      e == ScanUntil(p.text, p.pos, {" "})
      q == skipInlineSpaces(At(p, e))
      f == ScanUntil(q.text, q.pos, {" ", NL})
      g == ScanUntil(p.text, p.pos, {" ", NL})
  IN IF typed THEN Ok(At(q, f), Slice(p.text, p.pos, e) \o <<".">> \o Slice(q.text, q.pos, f))
     ELSE Ok(At(p, g), Slice(p.text, p.pos, g))

parseMockHead(p, prefixWord) ==
  LET q == skipSpaces(p)
      a == expect(q, prefixWord)
      b == expect(skipInlineSpaces(a.p), <<"m","o","c","k">>)
      target == this("parseMockTarget", skipInlineSpaces(b.p))
      c == expect(skipInlineSpaces(target.p), <<"r","e","t","u","r","n","i","n","g">>)
      returnValue == this("parseBacktickString", skipInlineSpaces(c.p))
      z == skipSpaces(returnValue.p)
  IN IF ~a.ok THEN a
     ELSE IF ~b.ok THEN b
     ELSE IF ~c.ok THEN c
     ELSE IF ~returnValue.ok THEN returnValue
     ELSE Ok(z, [target |-> target.v, returnValue |-> returnValue.v])

parseMock(p) == parseMockHead(p, <<"w","i","t","h">>)
parseAndMock(p) == parseMockHead(p, <<"a","n","d">>)

(* the three alternatives of parseWhen (the bodies of its tryParse calls) *)
parseCallingRoute(p) ==
  LET a == expect(p, <<"c","a","l","l","i","n","g">>)
      method == this("parseMethod", skipInlineSpaces(a.p))
      q == skipInlineSpaces(method.p)
      e == ScanUntil(q.text, q.pos, {NL})
  IN IF ~a.ok THEN a
     ELSE IF ~method.ok THEN method
     ELSE Ok(At(q, e), [kind |-> "CallingRoute", method |-> method.v,
                        path |-> Slice(q.text, q.pos, e)])

parseExecutingPipeline(p) ==
  LET a == expect(p, <<"e","x","e","c","u","t","i","n","g">>)
      b == expect(skipInlineSpaces(a.p), KwPipeline)
      name == this("parseIdentifier", skipInlineSpaces(b.p))
  IN IF ~a.ok THEN a
     ELSE IF ~b.ok THEN b
     ELSE IF ~name.ok THEN name
     ELSE Ok(name.p, [kind |-> "ExecutingPipeline", name |-> name.v])

parseExecutingVariable(p) ==
  LET a == expect(p, <<"e","x","e","c","u","t","i","n","g">>)
      b == expect(skipInlineSpaces(a.p), <<"v","a","r","i","a","b","l","e">>)
      varType == this("parseIdentifier", skipInlineSpaces(b.p))
      name == this("parseIdentifier", skipInlineSpaces(varType.p))
  IN IF ~a.ok THEN a
     ELSE IF ~b.ok THEN b
     ELSE IF ~varType.ok THEN varType
     ELSE IF ~name.ok THEN name
     ELSE Ok(name.p, [kind |-> "ExecutingVariable", varType |-> varType.v, name |-> name.v])

parseWhen(p) ==
  LET calling == tryParse(p, this("parseCallingRoute", p))
      executingPipeline == tryParse(calling.p, this("parseExecutingPipeline", calling.p))
      executingVariable == tryParse(executingPipeline.p,
                                    this("parseExecutingVariable", executingPipeline.p))
  IN IF calling.some THEN calling
     ELSE IF executingPipeline.some THEN executingPipeline
     ELSE IF executingVariable.some THEN executingVariable
     ELSE Fail(executingVariable.p, PF)

(* parseCondition from the cursor after the field, for the field `call` *)
parseCallCondition(p, ct) ==
  LET e == ScanUntil(p.text, p.pos, {" "})
      q == skipInlineSpaces(At(p, e))
      f == ScanUntil(q.text, q.pos, {" ", NL})
      r == skipInlineSpaces(At(q, f))
      long == StartsWith(r.text, <<"w","i","t","h"," ","a","r","g","u","m","e","n","t","s">>, r.pos)
      short == StartsWith(r.text, <<"w","i","t","h">>, r.pos)
      comparison == IF long THEN <<"w","i","t","h"," ","a","r","g","u","m","e","n","t","s">> ELSE <<"w","i","t","h">>
      value == this("parseValueOrLine", skipInlineSpaces(At(r, r.pos + Len(comparison))))
  IN IF ~long /\ ~short THEN Fail(r, "Error")
     ELSE Ok(value.p, [conditionType |-> ct, field |-> <<"c","a","l","l">>, comparison |-> comparison,
                       value |-> value.v, isCallAssertion |-> TRUE,
                       callTarget |-> Slice(p.text, p.pos, e) \o <<".">> \o Slice(q.text, q.pos, f)])

(* the comparison and the value that follow `text` or an attribute name *)
parseComparisonValue(p) ==
  LET q == skipInlineSpaces(p)
      e == ScanUntil(q.text, q.pos, {" ", NL})
      value == this("parseValueOrLine", skipInlineSpaces(At(q, e)))
  IN Ok(value.p, [comparison |-> Slice(q.text, q.pos, e), value |-> value.v])

(* the `count` operation: the comparison up to the first digit or the line
   end, trimmed, and the rest of the line, trimmed *)
parseCountAssert(p) ==
  LET e == ScanUntil(p.text, p.pos, Digit \cup {NL})
      f == ScanUntil(p.text, e, {NL})
  IN Ok(At(p, f), [comparison |-> Trim(Slice(p.text, p.pos, e)),
                   value |-> Trim(Slice(p.text, e, f)), domAssert |-> [kind |-> "Count"]])

parseDoesNotExist(p) ==
  LET a == expect(p, <<"n","o","t">>)
      b == expect(skipInlineSpaces(a.p), <<"e","x","i","s","t">>)
  IN IF ~a.ok THEN a
     ELSE IF ~b.ok THEN b
     ELSE Ok(b.p, [comparison |-> <<"d","o","e","s","_","n","o","t","_","e","x","i","s","t">>, value |-> <<"f","a","l","s","e">>,
                   domAssert |-> [kind |-> "Exists"]])

parseAttributeAssert(p) ==
  LET attrName == this("parseRequiredString", p)
      cv == this("parseComparisonValue", attrName.p)
  IN IF ~attrName.ok THEN attrName
     ELSE Ok(cv.p, [comparison |-> cv.v.comparison, value |-> cv.v.value,
                    domAssert |-> [kind |-> "Attribute", name |-> attrName.v]])

parseTextAssert(p) ==
  LET cv == this("parseComparisonValue", p)
  IN Ok(cv.p, [comparison |-> cv.v.comparison, value |-> cv.v.value,
               domAssert |-> [kind |-> "Text"]])

(* parseCondition from the cursor after the field, for the field `selector` *)
parseSelectorCondition(p, ct) ==
  LET selectorStr == this("parseRequiredString", p)
      q == skipInlineSpaces(selectorStr.p)
      e == ScanUntil(q.text, q.pos, {" ", NL})
      operation == Slice(q.text, q.pos, e)
      r == skipInlineSpaces(At(q, e))
      dom == IF operation = <<"e","x","i","s","t","s">>
                THEN Ok(r, [comparison |-> <<"e","x","i","s","t","s">>, value |-> <<"t","r","u","e">>,
                            domAssert |-> [kind |-> "Exists"]])
                ELSE IF operation = <<"d","o","e","s">> THEN this("parseDoesNotExist", r)
                ELSE IF operation = <<"t","e","x","t">> THEN this("parseTextAssert", r)
                ELSE IF operation = <<"c","o","u","n","t">> THEN this("parseCountAssert", r)
                ELSE IF operation = <<"a","t","t","r","i","b","u","t","e">> THEN this("parseAttributeAssert", r)
                ELSE Fail(r, "Error")
  IN IF ~selectorStr.ok THEN selectorStr
     ELSE IF ~dom.ok THEN dom
     ELSE Ok(dom.p, [conditionType |-> ct, field |-> <<"s","e","l","e","c","t","o","r">>,
                        comparison |-> dom.v.comparison, value |-> dom.v.value,
                        selector |-> selectorStr.v, domAssert |-> dom.v.domAssert])

(* the header name of the field `header`: a string, if there is one, and the
   inline spaces after it *)
parseHeaderName(p) ==
  LET s == this("parseEitherString", p)
  IN IF s.some THEN Ok(skipInlineSpaces(s.p), s.v.value) ELSE Null(skipInlineSpaces(s.p))

(* parseCondition from the cursor after the field, for any other field *)
parseFieldCondition(p, ct, field) ==
  LET headerName == IF field = <<"h","e","a","d","e","r">> THEN this("parseHeaderName", p) ELSE Null(p)
      jqExpr == IF headerName.some THEN Null(headerName.p)
                ELSE tryParse(headerName.p, this("parseBacktickString", headerName.p))
      cv == this("parseComparisonValue", jqExpr.p)
  IN Ok(cv.p, [conditionType |-> ct, field |-> field, headerName |-> Opt(headerName),
               jqExpr |-> Opt(jqExpr), comparison |-> cv.v.comparison, value |-> cv.v.value])

parseCondition(p) ==
  LET q == skipSpaces(p)
      ct == IF match(q, <<"t","h","e","n">>) THEN "Then" ELSE "And"
      r == skipInlineSpaces(At(q, q.pos + (IF ct = "Then" THEN 4 ELSE 3)))
      e == ScanUntil(r.text, r.pos, {" ", NL, BT})
      field == Slice(r.text, r.pos, e)
      s == skipInlineSpaces(At(r, e))
  IN IF ~match(q, <<"t","h","e","n">>) /\ ~match(q, KwAnd) THEN Fail(q, "Error")
     ELSE IF field = <<"c","a","l","l">> THEN parseCallCondition(s, ct)
     ELSE IF field = <<"s","e","l","e","c","t","o","r">> THEN parseSelectorCondition(s, ct)
     ELSE parseFieldCondition(s, ct, field)

WithKinds == <<<<"i","n","p","u","t">>, <<"b","o","d","y">>, <<"h","e","a","d","e","r","s">>, <<"c","o","o","k","i","e","s">>>>
WithFields == <<"input", "body", "headers", "cookies">>

(* a with-clause of parseIt from the cursor after its `with` (the rest of the
   body of the tryParse) *)
parseWithKind(p) ==
  LET q == skipInlineSpaces(p)
      hits == {k \in 1..Len(WithKinds) : StartsWith(q.text, WithKinds[k], q.pos)}
      k == CHOOSE i \in hits : \A j \in hits : i <= j
      v == this("parseBacktickString", skipInlineSpaces(At(q, q.pos + Len(WithKinds[k]))))
  IN IF hits = {} THEN Fail(q, "Error")
     ELSE IF ~v.ok THEN v
     ELSE Ok(skipSpaces(v.p), [type |-> WithFields[k], value |-> v.v])

parseWithClauseFirst(p) ==
  LET a == expect(p, <<"w","i","t","h">>)
  IN IF ~a.ok THEN a ELSE parseWithKind(a.p)

parseWithClauseNext(p) ==
  LET a == expect(p, KwAnd)
      b == expect(skipInlineSpaces(a.p), <<"w","i","t","h">>)
  IN IF ~a.ok THEN a
     ELSE IF ~b.ok THEN b
     ELSE parseWithKind(b.p)

(* a let binding of an it-block (the body of the tryParse) *)
parseLetInIt(p) ==
  LET binding == this("parseLetBinding", p)
  IN IF ~binding.ok THEN binding ELSE Ok(skipSpaces(binding.p), binding.v)

(* the loops of parseIt, last to first: conditions, the `and mock` mocks, the
   with-clauses, `when`, the let bindings, the mocks.  it: the it-block read
   so far *)
RECURSIVE parseItConditions(_, _), parseItExtraMocks(_, _), parseItWith(_, _, _),
          parseItLets(_, _), parseItMocks(_, _)
parseItConditions(p, it) ==
  LET c == tryParse(p, this("parseCondition", p))
  IN IF c.some THEN parseItConditions(c.p, [it EXCEPT !.conditions = Append(@, c.v)])
     ELSE Ok([c.p EXCEPT !.test = <<>>], it)

parseItExtraMocks(p, it) ==
  LET m == tryParse(p, this("parseAndMock", p))
  IN IF m.some THEN parseItExtraMocks(skipSpaces(m.p), [it EXCEPT !.mocks = Append(@, m.v)])
     ELSE parseItConditions(m.p, it)

parseItWith(p, it, firstWithClause) ==
  LET parsed == tryParse(p, this(IF firstWithClause THEN "parseWithClauseFirst"
                                 ELSE "parseWithClauseNext", p))
  IN IF parsed.some
     THEN parseItWith(parsed.p, [it EXCEPT ![parsed.v.type] = <<parsed.v.value>>], FALSE)
     ELSE parseItExtraMocks(parsed.p, it)

parseItWhen(p, it) ==
  LET a == expect(p, <<"w","h","e","n">>)
      when == this("parseWhen", skipInlineSpaces(a.p))
  IN IF ~a.ok THEN a
     ELSE IF ~when.ok THEN when
     ELSE parseItWith(skipSpaces(when.p), [it EXCEPT !.when = when.v], TRUE)

parseItLets(p, it) ==
  LET letBinding == tryParse(p, this("parseLetInIt", p))
  IN IF letBinding.some
     THEN parseItLets(letBinding.p, [it EXCEPT !.variables = Append(@, letBinding.v)])
     ELSE parseItWhen(letBinding.p, it)

parseItMocks(p, it) ==
  LET m == tryParse(p, this("parseMock", p))
  IN IF m.some THEN parseItMocks(m.p, [it EXCEPT !.mocks = Append(@, m.v)])
     ELSE parseItLets(m.p, it)

parseIt(p) ==
  LET a == expect(skipSpaces(p), <<"i","t">>)
      o == expect(skipInlineSpaces(a.p), <<DQ>>)
      e == ScanUntil(o.p.text, o.p.pos, {DQ})
      c == expect(At(o.p, e), <<DQ>>)
      name == Slice(p.text, o.p.pos, e)
  IN IF ~a.ok THEN a
     ELSE IF ~o.ok THEN o
     ELSE IF ~c.ok THEN c
     ELSE parseItMocks([skipSpaces(c.p) EXCEPT !.test = <<name>>],
                       [name |-> name, mocks |-> <<>>, when |-> <<>>, variables |-> <<>>,
                        input |-> <<>>, body |-> <<>>, headers |-> <<>>, cookies |-> <<>>,
                        conditions |-> <<>>])

(* the item loop of parseDescribe.  d: the describe block read so far *)
RECURSIVE parseDescribeLoop(_, _)
parseDescribeLoop(p, d) ==
  LET q == skipSpaces(p)
      letBinding == tryParse(q, this("parseLetBinding", q))
      withMock == tryParse(letBinding.p, this("parseMock", letBinding.p))
      andMock == tryParse(withMock.p, this("parseAndMock", withMock.p))
      it == tryParse(andMock.p, this("parseIt", andMock.p))
  IN IF letBinding.some
     THEN parseDescribeLoop(letBinding.p, [d EXCEPT !.variables = Append(@, letBinding.v)])
     ELSE IF withMock.some
     THEN parseDescribeLoop(withMock.p, [d EXCEPT !.mocks = Append(@, withMock.v)])
     ELSE IF andMock.some
     THEN parseDescribeLoop(andMock.p, [d EXCEPT !.mocks = Append(@, andMock.v)])
     ELSE IF it.some
     THEN parseDescribeLoop(it.p, [d EXCEPT !.tests = Append(@, it.v)])
     ELSE Ok([it.p EXCEPT !.describe = <<>>], [d EXCEPT !.end = it.p.pos])

parseDescribe(p) ==
  LET a == expect(skipSpaces(p), KwDescribe)
      o == expect(skipInlineSpaces(a.p), <<DQ>>)
      e == ScanUntil(o.p.text, o.p.pos, {DQ})
      c == expect(At(o.p, e), <<DQ>>)
      inlineComment == this("parseInlineComment", c.p)
      name == Slice(p.text, o.p.pos, e)
  IN IF ~a.ok THEN a
     ELSE IF ~o.ok THEN o
     ELSE IF ~c.ok THEN c
     ELSE parseDescribeLoop([skipSpaces(inlineComment.p) EXCEPT !.describe = <<name>>],
                            [name |-> name, variables |-> <<>>, mocks |-> <<>>,
                             tests |-> <<>>, inlineComment |-> Opt(inlineComment),
                             start |-> p.pos, end |-> p.pos])

this(method, p) ==
  CASE method = "parseIdentifier" -> parseIdentifier(p)
    [] method = "parseNumber" -> parseNumber(p)
    [] method = "parseQuotedString" -> parseQuotedString(p)
    [] method = "parseBacktickString" -> parseBacktickString(p)
    [] method = "parseInlineComment" -> parseInlineComment(p)
    [] method = "parseMethod" -> parseMethod(p)
    [] method = "parseBool" -> parseBool(p)
    [] method = "parseStepConfig" -> parseStepConfig(p)
    [] method = "parseTagArgument" -> parseTagArgument(p)
    [] method = "parseTagArgs" -> parseTagArgs(p)
    [] method = "parseTag" -> parseTag(p)
    [] method = "parseTagPrimary" -> parseTagPrimary(p)
    [] method = "parseAndExpr" -> parseAndExpr(p)
    [] method = "parseOrExpr" -> parseOrExpr(p)
    [] method = "parseTagExpr" -> parseTagExpr(p)
    [] method = "parseStepCondition" -> parseStepCondition(p)
    [] method = "parseInlineArgs" -> parseInlineArgs(p)
    [] method = "parseRegularStep" -> parseRegularStep(p)
    [] method = "parseResultBranch" -> parseResultBranch(p)
    [] method = "parseResultStep" -> parseResultStep(p)
    [] method = "parseElseBranch" -> parseElseBranch(p)
    [] method = "parseIfStep" -> parseIfStep(p)
    [] method = "parseDispatchBranch" -> parseDispatchBranch(p)
    [] method = "parseDefaultBranch" -> parseDefaultBranch(p)
    [] method = "parseDispatchStep" -> parseDispatchStep(p)
    [] method = "parseForeachStep" -> parseForeachStep(p)
    [] method = "parsePipelineStep" -> parsePipelineStep(p)
    [] method = "parsePipeline" -> parsePipeline(p)
    [] method = "parseStandaloneComment" -> parseStandaloneComment(p)
    [] method = "parseEnvWithDefault" -> parseEnvWithDefault(p)
    [] method = "parseEnvNoDefault" -> parseEnvNoDefault(p)
    [] method = "parseConfigValue" -> parseConfigValue(p)
    [] method = "parseConfigProperty" -> parseConfigProperty(p)
    [] method = "parseConfig" -> parseConfig(p)
    [] method = "parseNamedPipeline" -> parseNamedPipeline(p)
    [] method = "parseNamedRef" -> parseNamedRef(p)
    [] method = "parsePipelineRef" -> parsePipelineRef(p)
    [] method = "parseVariable" -> parseVariable(p)
    [] method = "parseGraphQLSchema" -> parseGraphQLSchema(p)
    [] method = "parseQueryResolver" -> parseQueryResolver(p)
    [] method = "parseMutationResolver" -> parseMutationResolver(p)
    [] method = "parseTypeResolver" -> parseTypeResolver(p)
    [] method = "parseFeatureFlags" -> parseFeatureFlags(p)
    [] method = "parseRoute" -> parseRoute(p)
    [] method = "parseEitherString" -> parseEitherString(p)
    [] method = "parseValueOrLine" -> parseValueOrLine(p)
    [] method = "parseRequiredString" -> parseRequiredString(p)
    [] method = "parseComparisonValue" -> parseComparisonValue(p)
    [] method = "parseDoesNotExist" -> parseDoesNotExist(p)
    [] method = "parseTextAssert" -> parseTextAssert(p)
    [] method = "parseCountAssert" -> parseCountAssert(p)
    [] method = "parseAttributeAssert" -> parseAttributeAssert(p)
    [] method = "parseHeaderName" -> parseHeaderName(p)
    [] method = "parseMockTarget" -> parseMockTarget(p)
    [] method = "parseLetNumber" -> parseLetNumber(p)
    [] method = "parseLetValue" -> parseLetValue(p)
    [] method = "parseLetBinding" -> parseLetBinding(p)
    [] method = "parseMock" -> parseMock(p)
    [] method = "parseAndMock" -> parseAndMock(p)
    [] method = "parseCallingRoute" -> parseCallingRoute(p)
    [] method = "parseExecutingPipeline" -> parseExecutingPipeline(p)
    [] method = "parseExecutingVariable" -> parseExecutingVariable(p)
    [] method = "parseWhen" -> parseWhen(p)
    [] method = "parseCondition" -> parseCondition(p)
    [] method = "parseWithClauseFirst" -> parseWithClauseFirst(p)
    [] method = "parseWithClauseNext" -> parseWithClauseNext(p)
    [] method = "parseLetInIt" -> parseLetInIt(p)
    [] method = "parseIt" -> parseIt(p)
    [] method = "parseDescribe" -> parseDescribe(p)

----------------------------------------------------------------------------
(* parseProgram *)

EmptyProgram ==
  [configs |-> <<>>, pipelines |-> <<>>, variables |-> <<>>, routes |-> <<>>,
   describes |-> <<>>, comments |-> <<>>, graphqlSchema |-> <<>>, queries |-> <<>>,
   mutations |-> <<>>, resolvers |-> <<>>, featureFlags |-> <<>>]

WithLine(v, n) == [lineNumber |-> n] @@ v

(* mutant of recoverLine: reports the line and leaves the cursor where it is *)
recoverLine_Stay(p, start) ==
  report(p, "Unrecognized or unsupported syntax",
         findLineStart(p, p.pos), findLineEnd(p, p.pos), "warning")

(* mutant of recoverLine: gives up on the rest of the text *)
recoverLine_ToEndOfText(p, start) ==
  LET d == report(p, "Unrecognized or unsupported syntax",
                  findLineStart(p, p.pos), findLineEnd(p, p.pos), "warning")
  IN IF p.pos = start THEN At(d, Len(d.text)) ELSE p

(* the recovery branch of parseProgram's loop *)
recoverLine(p, start) ==
  LET d == report(p, "Unrecognized or unsupported syntax",
                  findLineStart(p, p.pos), findLineEnd(p, p.pos), "warning")
      e == skipToEol(d)
      n == IF cur(e) = NL THEN At(e, e.pos + 1) ELSE e
  IN IF p.pos = start THEN At(n, ScanWhile(n.text, n.pos, {NL})) ELSE p

(* the methods the loop body of parseProgram tries, in its order *)
ItemMethods ==
  <<"parseStandaloneComment", "parseConfig", "parseGraphQLSchema", "parseQueryResolver",
    "parseMutationResolver", "parseTypeResolver", "parseFeatureFlags",
    "parseNamedPipeline", "parseVariable", "parseRoute", "parseDescribe">>

(* the tryParse calls of one turn from the i-th on, up to the first that
   returns a value or lets an exception through: its index (one past the last
   when every one returned null) and the outcome r of the last call made *)
RECURSIVE parseProgramTry(_, _)
parseProgramTried(i, r) ==
  IF ~r.ok \/ r.some THEN [first |-> i, r |-> r]
  ELSE IF i = Len(ItemMethods) THEN [first |-> i + 1, r |-> r]
  ELSE parseProgramTry(r.p, i + 1)

parseProgramTry(p, i) == parseProgramTried(i, tryParse(p, this(ItemMethods[i], p)))

(* what one turn does with the outcome `tried` of its tryParse calls: the
   `continue` of the alternative that returned a value, or the recovery *)
parseProgramTurn(p, prog, tried) ==
  LET r == tried.r
      v == WithLine(r.v, getLineNumber(p, p.pos))
      done(q, g) == [p |-> q, prog |-> g, raised |-> FALSE]
  IN IF ~r.ok THEN [p |-> r.p, prog |-> prog, raised |-> TRUE]
     ELSE IF tried.first = 1
     THEN done(IF cur(r.p) = NL THEN At(r.p, r.p.pos + 1) ELSE r.p,
               [prog EXCEPT !.comments = Append(@, r.v)])
     ELSE IF tried.first = 2 THEN done(r.p, [prog EXCEPT !.configs = Append(@, v)])
     ELSE IF tried.first = 3 THEN done(r.p, [prog EXCEPT !.graphqlSchema = <<v>>])
     ELSE IF tried.first = 4 THEN done(r.p, [prog EXCEPT !.queries = Append(@, v)])
     ELSE IF tried.first = 5 THEN done(r.p, [prog EXCEPT !.mutations = Append(@, v)])
     ELSE IF tried.first = 6 THEN done(r.p, [prog EXCEPT !.resolvers = Append(@, v)])
     ELSE IF tried.first = 7 THEN done(r.p, [prog EXCEPT !.featureFlags = <<r.v>>])
     ELSE IF tried.first = 8 THEN done(r.p, [prog EXCEPT !.pipelines = Append(@, v)])
     ELSE IF tried.first = 9 THEN done(r.p, [prog EXCEPT !.variables = Append(@, v)])
     ELSE IF tried.first = 10 THEN done(r.p, [prog EXCEPT !.routes = Append(@, v)])
     ELSE IF tried.first = 11 THEN done(r.p, [prog EXCEPT !.describes = Append(@, v)])
     ELSE done(recoverLine(r.p, p.pos), prog)

(* one turn of the while loop of parseProgram, from the cursor after
   skipWhitespaceOnly and not at the end of the text.  raised: an exception
   left a tryParse and so leaves parseProgram *)
parseProgramItem(p, prog) == parseProgramTurn(p, prog, parseProgramTry(p, 1))

(* mutant of parseProgramFinish: reports whenever the text has a backtick *)
parseProgramFinish_AnyBacktick(p) ==
  LET last == CHOOSE i \in 0..Len(p.text) :
                /\ i > 0 => p.text[i] = BT
                /\ \A j \in (i + 1)..Len(p.text) : p.text[j] # BT
  IN IF last > 0
     THEN report(p, "Unclosed backtick-delimited string", last - 1, last, "warning")
     ELSE p

(* the backtick count after the loop *)
parseProgramFinish(p) ==
  LET idx == (CHOOSE i \in 0..Len(p.text) :
                /\ \A j \in (i + 1)..Len(p.text) : p.text[j] # BT
                /\ i > 0 => p.text[i] = BT) - 1
      start == IF idx > 0 THEN idx ELSE 0
  IN IF CountOf(p.text, BT) % 2 = 1
     THEN report(p, "Unclosed backtick-delimited string", start, start + 1, "warning")
     ELSE p

(* parseProgram as a whole: [p, prog, raised] *)
RECURSIVE parseProgramLoop(_, _)
parseProgramNext(it) == IF it.raised THEN it ELSE parseProgramLoop(it.p, it.prog)

parseProgramLoop(p, prog) ==
  LET q == skipWhitespaceOnly(p)
  IN IF eof(q) THEN [p |-> parseProgramFinish(q), prog |-> prog, raised |-> FALSE]
     ELSE parseProgramNext(parseProgramItem(q, prog))

parseProgramOutcome(r) ==
  [program |-> r.prog, diagnostics |-> r.p.diags, raised |-> r.raised]

parseProgramWithDiagnostics(t) ==
  parseProgramOutcome(parseProgramLoop(NewParser(t), EmptyProgram))

----------------------------------------------------------------------------
(* Pretty-printer *)

Lines(ls) == JoinWith(ls, <<NL>>)
MapSeq(s, F(_)) == [k \in 1..Len(s) |-> F(s[k])]

printComment(comment) ==
  IF comment.style = <<"#">> /\ StartsWith(comment.text, <<"#">>, 0)
  THEN comment.style \o comment.text
  ELSE IF comment.text = <<>> \/ StartsWith(comment.text, <<" ">>, 0)
  THEN comment.style \o comment.text
  ELSE comment.style \o <<" ">> \o comment.text

(* `head` followed by the inline comment when there is one *)
HeadLine(head, item) ==
  IF item.inlineComment # <<>> THEN head \o <<" ">> \o printComment(item.inlineComment[1])
  ELSE head

formatConfigValue(value) ==
  IF value.kind = "String" THEN <<DQ>> \o value.value \o <<DQ>>
  ELSE IF value.kind = "EnvVar"
  THEN (IF value.default # <<>> /\ value.default[1] # <<>>
        THEN <<"$">> \o value.var \o <<" ","|","|"," ",DQ>> \o value.default[1] \o <<DQ>>
        ELSE <<"$">> \o value.var)
  ELSE IF value.kind = "Boolean" THEN (IF value.value THEN KwTrue ELSE KwFalse)
  ELSE NumberToString(value.value)

formatStepConfig(config, configType) ==
  IF configType = "backtick" THEN <<BT>> \o config \o <<BT>>
  ELSE IF configType = "quoted" THEN <<DQ>> \o config \o <<DQ>>
  ELSE config

formatTag(tag) ==
  LET formattedArgs == MapSeq(tag.args,
        LAMBDA arg : IF \E k \in 1..Len(arg) : arg[k] \notin IdentCont
                     THEN <<BT>> \o arg \o <<BT>> ELSE arg)
  IN <<"@">> \o (IF tag.negated THEN <<"!">> ELSE <<>>) \o tag.name
     \o (IF Len(tag.args) > 0 THEN <<"(">> \o JoinWith(formattedArgs, <<",">>) \o <<")">>
         ELSE <<>>)

RECURSIVE formatTagExpr(_)
formatTagExpr(expr) ==
  LET side(e) == IF e.kind = "Or" THEN <<"(">> \o formatTagExpr(e) \o <<")">>
                 ELSE formatTagExpr(e)
  IN IF expr.kind = "Tag" THEN formatTag(expr.tag)
     ELSE IF expr.kind = "And" THEN side(expr.left) \o <<" ","a","n","d"," ">> \o side(expr.right)
     ELSE formatTagExpr(expr.left) \o <<" ","o","r"," ">> \o formatTagExpr(expr.right)

RECURSIVE formatPipelineStep(_, _)
formatSteps(steps, indent) == MapSeq(steps, LAMBDA st : formatPipelineStep(st, indent))

formatPipelineStep(step, indent) ==
  IF step.kind = "Regular"
  THEN indent \o <<"|",">"," ">> \o step.name
       \o (IF Len(step.args) > 0 THEN <<"(">> \o JoinWith(step.args, <<","," ">>) \o <<")">>
           ELSE <<>>)
       \o <<":"," ">> \o formatStepConfig(step.config, step.configType)
       \o (IF step.condition # <<>> THEN <<" ">> \o formatTagExpr(step.condition[1])
           ELSE <<>>)
  ELSE IF step.kind = "Result"
  THEN Lines(<<indent \o <<"|",">"," ","r","e","s","u","l","t">>>> \o Flatten(MapSeq(step.branches,
         LAMBDA branch :
           <<indent \o <<" "," ">>
             \o (IF branch.branchType.kind = "Ok" THEN KwOk
                 ELSE IF branch.branchType.kind = "Default" THEN KwDefault
                 ELSE branch.branchType.name)
             \o <<"(">> \o NumberToString(branch.statusCode) \o <<")",":">>>>
           \o formatSteps(branch.pipeline.steps, indent \o <<" "," "," "," ">>))))
  ELSE IF step.kind = "If"
  THEN Lines(<<indent \o <<"|",">"," ","i","f">>>>
             \o formatSteps(step.condition.steps, indent \o <<" "," ">>)
             \o <<indent \o <<" "," ","t","h","e","n",":">>>>
             \o formatSteps(step.thenBranch.steps, indent \o <<" "," "," "," ">>)
             \o (IF step.elseBranch # <<>>
                 THEN <<indent \o <<" "," ","e","l","s","e",":">>>>
                      \o formatSteps(step.elseBranch[1].steps, indent \o <<" "," "," "," ">>)
                 ELSE <<>>))
  ELSE IF step.kind = "Dispatch"
  THEN Lines(<<indent \o <<"|",">"," ","d","i","s","p","a","t","c","h">>>> \o Flatten(MapSeq(step.branches,
         LAMBDA branch :
           <<indent \o <<" "," ","c","a","s","e"," ">> \o formatTagExpr(branch.condition) \o <<":">>>>
           \o formatSteps(branch.pipeline.steps, indent \o <<" "," "," "," ">>)))
             \o (IF step.default # <<>>
                 THEN <<indent \o <<" "," ","d","e","f","a","u","l","t",":">>>>
                      \o formatSteps(step.default[1].steps, indent \o <<" "," "," "," ">>)
                 ELSE <<>>))
  ELSE Lines(<<indent \o <<"|",">"," ","f","o","r","e","a","c","h"," ">> \o step.selector>>
             \o formatSteps(step.pipeline.steps, indent \o <<" "," ">>)
             \o <<indent \o KwEnd>>)

Indent2 == <<" "," ">>

formatPipelineRef(ref) ==
  IF ref.kind = "Named" THEN <<<<" "," ","|",">"," ","p","i","p","e","l","i","n","e",":"," ">> \o ref.name>>
  ELSE formatSteps(ref.pipeline.steps, Indent2)

printRoute(route) ==
  Lines(<<HeadLine(route.method \o <<" ">> \o route.path, route)>>
        \o formatPipelineRef(route.pipeline))

printConfig(config) ==
  Lines(<<HeadLine(<<"c","o","n","f","i","g"," ">> \o config.name \o <<" ","{">>, config)>>
        \o MapSeq(config.properties,
             LAMBDA prop : Indent2 \o prop.key \o <<":"," ">> \o formatConfigValue(prop.value))
        \o <<<<"}">>>>)

printPipeline(pipeline) ==
  Lines(<<HeadLine(<<"p","i","p","e","l","i","n","e"," ">> \o pipeline.name \o <<" ","=">>, pipeline)>>
        \o formatSteps(pipeline.pipeline.steps, Indent2))

printVariable(variable) ==
  HeadLine(variable.varType \o <<" ">> \o variable.name \o <<" ","="," ",BT>> \o variable.value
           \o <<BT>>, variable)

printGraphQLSchema(schema) ==
  HeadLine(<<"g","r","a","p","h","q","l"," ","s","c","h","e","m","a"," ","="," ",BT>> \o schema.sdl \o <<BT>>, schema)

printQueryResolver(query) ==
  Lines(<<HeadLine(<<"q","u","e","r","y"," ">> \o query.name \o <<" ","=">>, query)>>
        \o formatSteps(query.pipeline.steps, Indent2))

printMutationResolver(mutation) ==
  Lines(<<HeadLine(<<"m","u","t","a","t","i","o","n"," ">> \o mutation.name \o <<" ","=">>, mutation)>>
        \o formatSteps(mutation.pipeline.steps, Indent2))

printTypeResolver(resolver) ==
  Lines(<<HeadLine(<<"r","e","s","o","l","v","e","r"," ">> \o resolver.typeName \o <<".">> \o resolver.fieldName
                   \o <<" ","=">>, resolver)>>
        \o formatSteps(resolver.pipeline.steps, Indent2))

formatWhen(when) ==
  IF when.kind = "CallingRoute" THEN <<"c","a","l","l","i","n","g"," ">> \o when.method \o <<" ">> \o when.path
  ELSE IF when.kind = "ExecutingPipeline" THEN <<"e","x","e","c","u","t","i","n","g"," ","p","i","p","e","l","i","n","e"," ">> \o when.name
  ELSE <<"e","x","e","c","u","t","i","n","g"," ","v","a","r","i","a","b","l","e"," ">> \o when.varType \o <<" ">> \o when.name

printMock(mock, indent) ==
  indent \o <<"w","i","t","h"," ","m","o","c","k"," ">> \o mock.target \o <<" ","r","e","t","u","r","n","i","n","g"," ",BT>> \o mock.returnValue \o <<BT>>

(* `val.includes("\n") || val.includes("{") || val.includes("[")` *)
NeedsBackticks(val) == \E k \in 1..Len(val) : val[k] \in {NL, "{", "["}

(* formatValue of printCondition, for the value of a selector condition *)
formatValue(val) ==
  IF StartsWith(val, <<BT>>, 0) \/ StartsWith(val, <<DQ>>, 0) THEN val
  ELSE IF NeedsBackticks(val) THEN <<BT>> \o val \o <<BT>>
  ELSE <<DQ>> \o val \o <<DQ>>

(* an optional field of a condition that is there and is not the empty string *)
Truthy(condition, f) ==
  f \in DOMAIN condition /\ condition[f] # <<>> /\ condition[f] # <<<<>>>>

printCondition(condition, indent) ==
  LET condType == IF condition.conditionType = "Then" THEN <<"t","h","e","n">> ELSE <<"a","n","d">>
      head == indent \o condType \o <<" ","s","e","l","e","c","t","o","r"," ",DQ>> \o condition.selector \o <<DQ>>
      kind == condition.domAssert.kind
      fieldPart == IF Truthy(condition, "headerName")
                   THEN condition.field \o <<" ", DQ>> \o condition.headerName[1] \o <<DQ>>
                   ELSE IF Truthy(condition, "jqExpr")
                   THEN condition.field \o <<" ", BT>> \o condition.jqExpr[1] \o <<BT>>
                   ELSE condition.field
      value == IF StartsWith(condition.value, <<BT>>, 0) THEN condition.value
               ELSE IF NeedsBackticks(condition.value) THEN <<BT>> \o condition.value \o <<BT>>
               ELSE condition.value
  IN IF condition.field = <<"s","e","l","e","c","t","o","r">> /\ "selector" \in DOMAIN condition
        /\ condition.selector # <<>>
     THEN IF kind = "Exists"
          THEN head \o <<" ">> \o (IF condition.comparison = <<"e","x","i","s","t","s">> THEN <<"e","x","i","s","t","s">>
                                   ELSE <<"d","o","e","s"," ","n","o","t"," ","e","x","i","s","t">>)
          ELSE IF kind = "Text"
          THEN head \o <<" ","t","e","x","t"," ">> \o condition.comparison \o <<" ">> \o formatValue(condition.value)
          ELSE IF kind = "Count"
          THEN head \o <<" ","c","o","u","n","t"," ">> \o condition.comparison \o <<" ">> \o condition.value
          ELSE head \o <<" ","a","t","t","r","i","b","u","t","e"," ",DQ>> \o condition.domAssert.name \o <<DQ, " ">>
               \o condition.comparison \o <<" ">> \o formatValue(condition.value)
     ELSE indent \o condType \o <<" ">> \o fieldPart \o <<" ">> \o condition.comparison
          \o <<" ">> \o value

(* the line of a let binding, in printTest and printDescribe *)
printLet(variable, indent) ==
  indent \o <<"l","e","t"," ">> \o variable.name \o <<" ","="," ">>
    \o (IF variable.format = "quoted" THEN <<DQ>> \o variable.value \o <<DQ>>
        ELSE IF variable.format = "backtick" THEN <<BT>> \o variable.value \o <<BT>>
        ELSE variable.value)

(* the line of the k-th kind of with-clause in printTest, when the it-block
   has a value for it that is not the empty string *)
printWith(test, k) ==
  IF test[WithFields[k]] = <<>> \/ test[WithFields[k]] = <<<<>>>> THEN <<>>
  ELSE <<<<" "," "," "," ","w","i","t","h"," ">> \o WithKinds[k] \o <<" ", BT>>
           \o test[WithFields[k]][1] \o <<BT>>>>

printTest(test) ==
  Lines(<<<<" "," ","i","t"," ",DQ>> \o test.name \o <<DQ>>>>
        \o MapSeq(test.mocks, LAMBDA mock : printMock(mock, <<" "," "," "," ">>))
        \o <<<<" "," "," "," ","w","h","e","n"," ">> \o formatWhen(test.when)>>
        \o MapSeq(test.variables, LAMBDA variable : printLet(variable, <<" "," "," "," ">>))
        \o printWith(test, 1) \o printWith(test, 2) \o printWith(test, 3) \o printWith(test, 4)
        \o MapSeq(test.conditions, LAMBDA condition : printCondition(condition, <<" "," "," "," ">>)))

(* `.replace(/\n\n$/, "\n")` *)
DropLastBlank(t) ==
  IF Len(t) >= 2 /\ t[Len(t)] = NL /\ t[Len(t) - 1] = NL THEN SubSeq(t, 1, Len(t) - 1) ELSE t

printDescribe(describe) ==
  DropLastBlank(Lines(
    <<HeadLine(<<"d","e","s","c","r","i","b","e"," ",DQ>> \o describe.name \o <<DQ>>, describe)>>
    \o MapSeq(describe.variables, LAMBDA variable : printLet(variable, Indent2))
    \o (IF describe.variables # <<>> THEN << <<>> >> ELSE <<>>)
    \o MapSeq(describe.mocks, LAMBDA mock : printMock(mock, Indent2))
    \o (IF describe.mocks # <<>> THEN << <<>> >> ELSE <<>>)
    \o Flatten(MapSeq(describe.tests, LAMBDA test : <<printTest(test), <<>>>>))))

(* Array.prototype.sort by lineNumber (stable): insertion from the left *)
RECURSIVE SortByLine(_)
SortByLine(items) ==
  IF items = <<>> THEN <<>>
  ELSE LET x == items[Len(items)]
           rest == SortByLine(SubSeq(items, 1, Len(items) - 1))
           n == Cardinality({k \in 1..Len(rest) : rest[k].lineNumber <= x.lineNumber})
       IN SubSeq(rest, 1, n) \o <<x>> \o SubSeq(rest, n + 1, Len(rest))

prettyPrint(prog) ==
  LET tag(type, s) == MapSeq(s, LAMBDA it : [type |-> type, item |-> it,
                                             lineNumber |-> it.lineNumber])
      allItems == SortByLine(
           tag("config", prog.configs) \o tag("graphqlSchema", prog.graphqlSchema)
        \o tag("query", prog.queries) \o tag("mutation", prog.mutations)
        \o tag("resolver", prog.resolvers) \o tag("route", prog.routes)
        \o tag("pipeline", prog.pipelines) \o tag("variable", prog.variables)
        \o tag("describe", prog.describes) \o tag("comment", prog.comments))
      emit(index) ==
        LET entry == allItems[index]
            t == entry.type
        IN IF t = "comment" THEN <<printComment(entry.item)>>
           ELSE IF t = "config" THEN <<printConfig(entry.item), <<>>>>
           ELSE IF t = "graphqlSchema" THEN <<printGraphQLSchema(entry.item), <<>>>>
           ELSE IF t = "query" THEN <<printQueryResolver(entry.item), <<>>>>
           ELSE IF t = "mutation" THEN <<printMutationResolver(entry.item), <<>>>>
           ELSE IF t = "resolver" THEN <<printTypeResolver(entry.item), <<>>>>
           ELSE IF t = "route" THEN <<printRoute(entry.item), <<>>>>
           ELSE IF t = "pipeline" THEN <<printPipeline(entry.item), <<>>>>
           ELSE IF t = "variable"
           THEN <<printVariable(entry.item)>>
                \o (IF \E k \in (index + 1)..Len(allItems) : allItems[k].type # "variable"
                    THEN << <<>> >> ELSE <<>>)
           ELSE <<printDescribe(entry.item), <<>>>>
  IN Trim(Lines(Flatten([k \in 1..Len(allItems) |-> emit(k)]))) \o <<NL>>

----------------------------------------------------------------------------
(* Inputs.  `source` describes the input that was drawn, `text` is the text
   it stands for.  A program text is up to MaxFragments fragments, one below
   the other. *)

MaxFragments == 3

(* a line that no top-level alternative accepts *)
GarbageLine == <<"?","?"," ","w","h","a","t">>

Fragments == <<
  <<"G","E","T"," ","/","x">>,
  <<" "," ","|",">"," ","j","q",":"," ",BT,"a",BT>>,
  <<" "," ","|",">"," ","a","u","t","h",":"," ",DQ,"r",DQ," ","@","d","e","v">>,
  <<" "," ","|",">"," ","i","f",NL," "," "," "," ","|",">"," ","c",":"," ","d",NL," "," "," "," ","t","h","e","n",":",NL," "," "," "," "," "," ","|",">"," ","e",":"," ","f",NL," "," ","e","n","d">>,
  <<" "," ","|",">"," ","r","e","s","u","l","t",NL," "," "," "," ","o","k","(","2","0","0",")",":",NL," "," "," "," "," "," ","|",">"," ","a",":"," ","b">>,
  <<"#","n","o","t","e">>,
  <<"p","i","p","e","l","i","n","e"," ","p"," ","=">>,
  <<"s","q","l"," ","q"," ","="," ",BT,"s",BT>>,
  GarbageLine,
  <<" "," ","|",">"," ","p","i","p","e","l","i","n","e",":"," ","p">>,
  <<" "," ","|",">"," ","l","o","g",":"," ",BT,"b">>,
  <<"c","o","n","f","i","g"," ","c"," ","{",NL," "," ","k",":"," ","$","E"," ","|","|"," ",DQ,"v",DQ,NL,"}">>
>>

FragmentSources == UNION {[1..m -> 1..Len(Fragments)] : m \in 1..MaxFragments}

FragmentText(fs) == JoinWith([k \in 1..Len(fs) |-> Fragments[fs[k]]], <<NL>>)

----------------------------------------------------------------------------
(* Tag expressions.  A route with one step whose guard is a chain of up to
   MaxAtoms atoms, each a tag or a parenthesised group, separated by `and`,
   `or` or a single space *)

MaxAtoms == 3

TagNode(name, negated, args) ==
  [kind |-> "Tag", tag |-> [name |-> name, negated |-> negated, args |-> args]]
AndNode(l, r) == [kind |-> "And", left |-> l, right |-> r]
OrNode(l, r) == [kind |-> "Or", left |-> l, right |-> r]

(* each atom as it is written, and the tree it stands for *)
TagAtoms == <<
  [text |-> <<"@","a">>, tree |-> TagNode(<<"a">>, FALSE, <<>>), group |-> FALSE],
  [text |-> <<"@","b">>, tree |-> TagNode(<<"b">>, FALSE, <<>>), group |-> FALSE],
  [text |-> <<"@","c">>, tree |-> TagNode(<<"c">>, FALSE, <<>>), group |-> FALSE],
  [text |-> <<"@","!","d","(","x",",","y",")">>, tree |-> TagNode(<<"d">>, TRUE, <<<<"x">>, <<"y">>>>), group |-> FALSE],
  [text |-> <<"(","@","b"," ","o","r"," ","@","c",")">>,
   tree |-> OrNode(TagNode(<<"b">>, FALSE, <<>>), TagNode(<<"c">>, FALSE, <<>>)), group |-> TRUE],
  [text |-> <<"(","@","b"," ","a","n","d"," ","@","c",")">>,
   tree |-> AndNode(TagNode(<<"b">>, FALSE, <<>>), TagNode(<<"c">>, FALSE, <<>>)), group |-> TRUE]
>>

TagSeps == <<<<" ","a","n","d"," ">>, <<" ","o","r"," ">>, <<" ">>>>
SepAnd == TagSeps[1]
SepOr == TagSeps[2]
SepImplicit == TagSeps[3]

TagSources ==
  UNION {[atoms : [1..n -> 1..Len(TagAtoms)], seps : [1..(n - 1) -> 1..Len(TagSeps)]]
           : n \in 1..MaxAtoms}

RECURSIVE TagChain(_, _)
TagChain(atoms, seps) ==
  IF Len(atoms) = 1 THEN TagAtoms[atoms[1]].text
  ELSE TagAtoms[atoms[1]].text \o TagSeps[seps[1]] \o TagChain(Tail(atoms), Tail(seps))

TagText(src) == <<"G","E","T"," ","/","x",NL," "," ","|",">"," ","s",":"," ","c"," ">> \o TagChain(src.atoms, src.seps)

----------------------------------------------------------------------------
(* Result branches.  A route whose result step has a first branch with a drawn
   label and status code and up to MaxSiblings branches after it; the result
   step is the route's own step, or the first step of an if-block that has no
   `then:` *)

MaxSiblings == 2

StatusLabels == <<
  [text |-> <<"o","k">>, type |-> [kind |-> "Ok"]],
  [text |-> <<"d","e","f","a","u","l","t">>, type |-> [kind |-> "Default"]],
  [text |-> <<"c","r","e","a","t","e","d">>, type |-> [kind |-> "Custom", name |-> <<"c","r","e","a","t","e","d">>]]
>>

(* status codes as written, and the number each is *)
StatusDigits == <<
  [text |-> <<"2","0","0">>, value |-> 200],
  [text |-> <<"1","0","0">>, value |-> 100],
  [text |-> <<"5","9","9">>, value |-> 599],
  [text |-> <<"9","9">>, value |-> 99],
  [text |-> <<"6","0","0">>, value |-> 600],
  [text |-> <<"7","0","0">>, value |-> 700],
  [text |-> <<"0">>, value |-> 0],
  [text |-> <<"0","7","0","0">>, value |-> 700],
  [text |-> <<"0","0","7">>, value |-> 7]
>>

StatusSources ==
  [label : 1..Len(StatusLabels), digits : 1..Len(StatusDigits),
   siblings : 0..MaxSiblings, inIf : BOOLEAN]

StatusHead(src) ==
  IF src.inIf THEN <<"G","E","T"," ","/","x",NL," "," ","|",">"," ","i","f",NL," "," "," "," ","|",">"," ","r","e","s","u","l","t",NL," "," "," "," "," "," ">>
  ELSE <<"G","E","T"," ","/","x",NL," "," ","|",">"," ","r","e","s","u","l","t",NL," "," "," "," ">>

RECURSIVE StatusSiblings(_)
StatusSiblings(n) ==
  IF n = 0 THEN <<>> ELSE <<NL," "," "," "," ","o","t","h","e","r","(","2","0","1",")",":",NL," "," "," "," "," "," ","|",">"," ","c",":"," ","d">> \o StatusSiblings(n - 1)

StatusText(src) ==
  StatusHead(src) \o StatusLabels[src.label].text \o <<"(">>
    \o StatusDigits[src.digits].text \o <<")",":",NL," "," "," "," "," "," ","|",">"," ","a",":"," ","b">> \o StatusSiblings(src.siblings)

(* the offset of the first digit of the drawn status code *)
StatusOffset(src) == Len(StatusHead(src)) + Len(StatusLabels[src.label].text) + 1

----------------------------------------------------------------------------
(* Inline arguments.  A route with one step `echo(...)` or `echo[...]` whose
   bracket run holds up to MaxArgs pieces separated by commas; no piece has a
   comma outside a string or a nested bracket *)

MaxArgs == 3

ArgPieces == <<
  <<"a">>,
  <<" ",DQ,"b",",","c",DQ>>,
  <<" ","[","d",",","e","]">>,
  <<BT,"f",",","g",BT>>,
  <<"{","h",":","1",","," ","i",":","2","}"," ">>,
  <<"(","j",","," ",DQ,"k",")",DQ,")">>,
  <<>>,
  <<" ","m"," ","n"," ">>
>>

ArgBrackets == <<[open |-> "(", close |-> ")"], [open |-> "[", close |-> "]"]>>

ArgSources ==
  UNION {[bracket : 1..Len(ArgBrackets), pieces : [1..n -> 1..Len(ArgPieces)]]
           : n \in 0..MaxArgs}

ArgRun(src) == JoinWith([k \in 1..Len(src.pieces) |-> ArgPieces[src.pieces[k]]], <<",">>)

ArgText(src) ==
  <<"G","E","T"," ","/","x",NL," "," ","|",">"," ","e","c","h","o">> \o <<ArgBrackets[src.bracket].open>> \o ArgRun(src)
    \o <<ArgBrackets[src.bracket].close>> \o <<":"," ","x">>

----------------------------------------------------------------------------
(* Regular steps.  A route with one step: a name, an inline argument list, a
   config in one of the quoting forms (or none), and a guard *)

StepArgs == <<<<>>, <<"(","x",")">>, <<"[","y",","," ","z","]">>>>

StepConfigs == <<
  [text |-> <<":"," ",BT,"a",BT>>, config |-> <<"a">>, configType |-> "backtick"],
  [text |-> <<":"," ",DQ,"r","e","q","u","i","r","e","d",DQ>>, config |-> <<"r","e","q","u","i","r","e","d">>, configType |-> "quoted"],
  [text |-> <<":"," ","b">>, config |-> <<"b">>, configType |-> "identifier"],
  [text |-> <<":"," ",DQ,DQ>>, config |-> <<>>, configType |-> "quoted"],
  [text |-> <<":"," ",BT,BT>>, config |-> <<>>, configType |-> "backtick"],
  [text |-> <<>>, config |-> <<>>, configType |-> "quoted"]
>>

StepGuards == <<<<>>, <<" ","@","d","e","v">>, <<" ","@","f","l","a","g","(",BT,"a"," ","b",BT,")">>, <<" ","@","s","i","n","c","e","(",BT,"2",BT,")">>, <<" ","@","e","n","v","(",BT,BT,")">>,
                <<" ","@","!","d","e","v"," ","a","n","d"," ","@","f","l","a","g","(","x",")">>>>

StepSources ==
  [args : 1..Len(StepArgs), config : 1..Len(StepConfigs), guard : 1..Len(StepGuards)]

StepText(src) ==
  <<"G","E","T"," ","/","x",NL," "," ","|",">"," ","a","u","t","h">> \o StepArgs[src.args] \o StepConfigs[src.config].text
    \o StepGuards[src.guard]

----------------------------------------------------------------------------
(* The state machine: one parse of `text`, then prettyPrint of the Program
   it returned and a parse of the printed text *)

Parser ==
  [text |-> text, pos |-> pos, diags |-> diagnostics, pranges |-> pipelineRanges,
   vranges |-> variableRanges, lets |-> testLetVariables,
   describe |-> currentDescribeName, test |-> currentTestName, log |-> <<>>]

Load(p) ==
  /\ pos' = p.pos
  /\ diagnostics' = p.diags
  /\ pipelineRanges' = p.pranges
  /\ variableRanges' = p.vranges
  /\ testLetVariables' = p.lets
  /\ currentDescribeName' = p.describe
  /\ currentTestName' = p.test
  /\ attempts' = p.log

NoResult == [program |-> EmptyProgram, diagnostics |-> <<>>, raised |-> FALSE]

(* the state after `new Parser(text)` *)
Constructed ==
  /\ pos = 0
  /\ diagnostics = <<>>
  /\ pipelineRanges = {}
  /\ variableRanges = {}
  /\ testLetVariables = <<>>
  /\ currentDescribeName = <<>>
  /\ currentTestName = <<>>
  /\ program = EmptyProgram
  /\ attempts = <<>>
  /\ raised = FALSE
  /\ phase = "parsing"
  /\ printed = <<>>
  /\ reparsed = NoResult

Init ==
  /\ source \in FragmentSources
  /\ text = FragmentText(source)
  /\ Constructed

(* one turn of the top-level loop of parseProgram *)
ParseItem ==
  /\ phase = "parsing"
  /\ ~eof(skipWhitespaceOnly(Parser))
  /\ \E it \in {parseProgramItem(skipWhitespaceOnly(Parser), program)} :
        /\ Load(it.p)
        /\ program' = it.prog
        /\ raised' = it.raised
        /\ phase' = IF it.raised THEN "raised" ELSE "parsing"
  /\ UNCHANGED <<source, text, printed, reparsed>>

(* the loop of parseProgram ends: the backtick count, and the return *)
Finish ==
  /\ phase = "parsing"
  /\ eof(skipWhitespaceOnly(Parser))
  /\ Load(parseProgramFinish(skipWhitespaceOnly(Parser)))
  /\ phase' = "parsed"
  /\ UNCHANGED <<source, text, program, raised, printed, reparsed>>

PrettyPrint ==
  /\ phase = "parsed"
  /\ printed' = prettyPrint(program)
  /\ phase' = "printed"
  /\ UNCHANGED <<source, text, pos, diagnostics, pipelineRanges, variableRanges,
                 testLetVariables, currentDescribeName, currentTestName, program, attempts, raised, reparsed>>

Reparse ==
  /\ phase = "printed"
  /\ reparsed' = parseProgramWithDiagnostics(printed)
  /\ phase' = "reparsed"
  /\ UNCHANGED <<source, text, pos, diagnostics, pipelineRanges, variableRanges,
                 testLetVariables, currentDescribeName, currentTestName, program, attempts, raised, printed>>

Next == ParseItem \/ Finish \/ PrettyPrint \/ Reparse

Spec == Init /\ [][Next]_vars

Returned == phase \in {"parsed", "printed", "reparsed"}

InitTag ==
  /\ source \in TagSources
  /\ text = TagText(source)
  /\ Constructed

SpecTag == InitTag /\ [][Next]_vars

InitStatus ==
  /\ source \in StatusSources
  /\ text = StatusText(source)
  /\ Constructed

SpecStatus == InitStatus /\ [][Next]_vars

InitArgs ==
  /\ source \in ArgSources
  /\ text = ArgText(source)
  /\ Constructed

SpecArgs == InitArgs /\ [][Next]_vars

InitStep ==
  /\ source \in StepSources
  /\ text = StepText(source)
  /\ Constructed

SpecStep == InitStep /\ [][Next]_vars

----------------------------------------------------------------------------
(* The steps of a Program: every step of every inline route pipeline and named
   pipeline, with the steps nested in it, in source order *)

RECURSIVE StepsOf(_)
StepsOf(steps) ==
  LET inner(st) ==
        IF st.kind = "Result"
        THEN Flatten(MapSeq(st.branches, LAMBDA b : StepsOf(b.pipeline.steps)))
        ELSE IF st.kind = "If"
        THEN StepsOf(st.condition.steps) \o StepsOf(st.thenBranch.steps)
             \o Flatten(MapSeq(st.elseBranch, LAMBDA b : StepsOf(b.steps)))
        ELSE IF st.kind = "Dispatch"
        THEN Flatten(MapSeq(st.branches, LAMBDA b : StepsOf(b.pipeline.steps)))
             \o Flatten(MapSeq(st["default"], LAMBDA b : StepsOf(b.steps)))
        ELSE IF st.kind = "Foreach" THEN StepsOf(st.pipeline.steps)
        ELSE <<>>
  IN Flatten(MapSeq(steps, LAMBDA st : <<st>> \o inner(st)))

ProgramSteps(prog) ==
  Flatten(MapSeq(prog.routes,
                 LAMBDA r : IF r.pipeline.kind = "Inline"
                            THEN StepsOf(r.pipeline.pipeline.steps) ELSE <<>>))
  \o Flatten(MapSeq(prog.pipelines, LAMBDA n : StepsOf(n.pipeline.steps)))

(* the only step of the only route of the Program *)
OnlyStep(prog) == prog.routes[1].pipeline.pipeline.steps[1]

HasOnlyStep(prog) ==
  /\ Len(prog.routes) = 1
  /\ prog.routes[1].pipeline.kind = "Inline"
  /\ Len(prog.routes[1].pipeline.pipeline.steps) = 1

----------------------------------------------------------------------------
(* Comparing Programs on every field but the position metadata *)

PositionFields == {"start", "end", "lineNumber"}

RECURSIVE StripItem(_)
StripItem(r) ==
  [k \in DOMAIN r \ PositionFields |->
     IF k = "inlineComment" THEN MapSeq(r[k], StripItem) ELSE r[k]]

StripProgram(prog) == [f \in DOMAIN prog |-> MapSeq(prog[f], StripItem)]

----------------------------------------------------------------------------
(* C1: the Program parsed back from prettyPrint's output equals the Program
   that was printed, on every field other than start, end and lineNumber *)
C1_RoundTrip ==
  phase = "reparsed" => StripProgram(reparsed.program) = StripProgram(program)

----------------------------------------------------------------------------
(* C2: no exception leaves parseProgram: neither the parse of the text nor
   the parse of the printed text ends raised, whatever was thrown inside *)
C2_NeverRaises ==
  /\ ~raised
  /\ phase # "raised"
  /\ ~reparsed.raised

(* a route with no pipeline threw the plain Error of parsePipelineRef, the
   top-level tryParse caught it, and the parse went on *)
C2_Witness ==
  /\ phase = "parsing"
  /\ ~raised
  /\ \E k \in 1..Len(attempts) : attempts[k].threw /\ attempts[k].err = "Error"

----------------------------------------------------------------------------
(* C3: every attempt made through tryParse in the last turn of the loop that
   threw or returned null left the cursor where it was before the attempt *)
C3_CursorRestored ==
  \A k \in 1..Len(attempts) : attempts[k].after = attempts[k].save

(* an attempt nested in another rule threw after consuming several characters *)
C3_Witness ==
  \E k \in 1..Len(attempts) :
    /\ attempts[k].threw
    /\ attempts[k].failedAt > attempts[k].save + 3
    /\ \E j \in 1..Len(attempts) : attempts[j].save < attempts[k].save

----------------------------------------------------------------------------
(* The tree a chain of atoms written with `and` and `or` stands for when `and`
   binds tighter than `or` and both associate to the left: the chain is cut
   at each `or`, each piece is folded to the left with And, and the pieces are
   folded to the left with Or *)

RECURSIVE FoldLeft(_, _)
FoldLeft(kind, ts) ==
  IF Len(ts) = 1 THEN ts[1]
  ELSE [kind |-> kind, left |-> FoldLeft(kind, SubSeq(ts, 1, Len(ts) - 1)),
        right |-> ts[Len(ts)]]

RECURSIVE CutAtOr(_, _)
CutAtOr(trees, seps) ==
  IF Len(trees) = 1 THEN <<trees>>
  ELSE LET rest == CutAtOr(Tail(trees), Tail(seps))
       IN IF Head(seps) = SepAnd
          THEN <<<<Head(trees)>> \o Head(rest)>> \o Tail(rest)
          ELSE <<<<Head(trees)>>>> \o rest

AtomTrees(src) == [k \in 1..Len(src.atoms) |-> TagAtoms[src.atoms[k]].tree]

ExpectedTree(src) ==
  LET pieces == CutAtOr(AtomTrees(src), [k \in 1..Len(src.seps) |-> TagSeps[src.seps[k]]])
  IN FoldLeft("Or", [k \in 1..Len(pieces) |-> FoldLeft("And", pieces[k])])

ExplicitOnly(src) == \A k \in 1..Len(src.seps) : TagSeps[src.seps[k]] # SepImplicit

ImplicitOnly(src) ==
  /\ Len(src.atoms) >= 2
  /\ \A k \in 1..Len(src.seps) : TagSeps[src.seps[k]] = SepImplicit

TagsOnly(src) == \A k \in 1..Len(src.atoms) : ~TagAtoms[src.atoms[k]].group

(* the same chain with `and` written at every separator *)
WithAnd(src) ==
  [src EXCEPT !.seps = [k \in 1..Len(src.seps) |->
                          CHOOSE i \in 1..Len(TagSeps) : TagSeps[i] = SepAnd]]

GuardOf(prog) == OnlyStep(prog).condition

TagA == TagNode(<<"a">>, FALSE, <<>>)
TagB == TagNode(<<"b">>, FALSE, <<>>)
TagC == TagNode(<<"c">>, FALSE, <<>>)
TagNotD == TagNode(<<"d">>, TRUE, <<<<"x">>, <<"y">>>>)

(* C4: the guard of a step written as a chain of tags and parenthesised groups
   with `and` and `or` is the tree in which `and` binds tighter than `or`, a
   group is one operand, and chains of one operator associate to the left; so
   `@a and @b or @c` is Or(And(a,b),c), `@a or @b and @c` is Or(a,And(b,c))
   and `@a and (@b or @c)` is And(a,Or(b,c)) *)
C4_TagPrecedence ==
  Returned =>
    /\ ExplicitOnly(source) =>
         /\ HasOnlyStep(program)
         /\ GuardOf(program) = <<ExpectedTree(source)>>
    /\ text = <<"G","E","T"," ","/","x",NL," "," ","|",">"," ","s",":"," ","c"," ","@","a"," ","a","n","d"," ","@","b"," ","o","r"," ","@","c">> =>
         GuardOf(program) = <<OrNode(AndNode(TagA, TagB), TagC)>>
    /\ text = <<"G","E","T"," ","/","x",NL," "," ","|",">"," ","s",":"," ","c"," ","@","a"," ","o","r"," ","@","b"," ","a","n","d"," ","@","c">> =>
         GuardOf(program) = <<OrNode(TagA, AndNode(TagB, TagC))>>
    /\ text = <<"G","E","T"," ","/","x",NL," "," ","|",">"," ","s",":"," ","c"," ","@","a"," ","a","n","d"," ","(","@","b"," ","o","r"," ","@","c",")">> =>
         GuardOf(program) = <<AndNode(TagA, OrNode(TagB, TagC))>>
    /\ text = <<"G","E","T"," ","/","x",NL," "," ","|",">"," ","s",":"," ","c"," ","@","a"," ","a","n","d"," ","@","b"," ","a","n","d"," ","@","c">> =>
         GuardOf(program) = <<AndNode(AndNode(TagA, TagB), TagC)>>
    /\ text = <<"G","E","T"," ","/","x",NL," "," ","|",">"," ","s",":"," ","c"," ","@","a"," ","o","r"," ","@","b"," ","o","r"," ","@","c">> =>
         GuardOf(program) = <<OrNode(OrNode(TagA, TagB), TagC)>>

(* `@a and @b or @c` was parsed *)
C4_Witness ==
  /\ phase = "parsed"
  /\ text = <<"G","E","T"," ","/","x",NL," "," ","|",">"," ","s",":"," ","c"," ","@","a"," ","a","n","d"," ","@","b"," ","o","r"," ","@","c">>
  /\ GuardOf(program) = <<OrNode(AndNode(TagA, TagB), TagC)>>

(* C5: the guard of a step written as tags separated by single spaces is the
   left fold of the tags with And, each tag with its name, negation and
   arguments, and is the guard the parser returns for the same tags written
   with `and` between them *)
C5_ImplicitAnd ==
  (Returned /\ ImplicitOnly(source) /\ TagsOnly(source)) =>
    /\ HasOnlyStep(program)
    /\ GuardOf(program) = <<FoldLeft("And", AtomTrees(source))>>
    /\ GuardOf(program) =
         GuardOf(parseProgramWithDiagnostics(TagText(WithAnd(source))).program)

(* `@a @!d(x,y)` was parsed *)
C5_Witness ==
  /\ phase = "parsed"
  /\ text = <<"G","E","T"," ","/","x",NL," "," ","|",">"," ","s",":"," ","c"," ","@","a"," ","@","!","d","(","x",",","y",")">>
  /\ GuardOf(program) = <<AndNode(TagA, TagNotD)>>

----------------------------------------------------------------------------
(* C6: when the status code of the first result branch is outside [100,599],
   the Program has the result step with that branch and that status code and
   with every branch written after it, and the diagnostics hold exactly one
   entry of severity "error", whose range is the digits of the status code *)
ErrorsOf(ds) == SelectSeq(ds, LAMBDA d : d.severity = "error")

ResultSteps(prog) == SelectSeq(ProgramSteps(prog), LAMBDA st : st.kind = "Result")

StatusOutOfRange(src) ==
  \/ StatusDigits[src.digits].value < StatusMin
  \/ StatusDigits[src.digits].value > StatusMax

C6_StatusDiagnostic ==
  (Returned /\ StatusOutOfRange(source)) =>
    /\ Len(ResultSteps(program)) = 1
    /\ Len(ResultSteps(program)[1].branches) = 1 + source.siblings
    /\ ResultSteps(program)[1].branches[1].branchType = StatusLabels[source.label].type
    /\ ResultSteps(program)[1].branches[1].statusCode = StatusDigits[source.digits].value
    /\ Len(ErrorsOf(diagnostics)) = 1
    /\ ErrorsOf(diagnostics)[1].start = StatusOffset(source)
    /\ ErrorsOf(diagnostics)[1].end =
         StatusOffset(source) + Len(StatusDigits[source.digits].text)

----------------------------------------------------------------------------
(* C7: the args of a step with an inline argument list.  The comma-separated
   pieces of the bracket run, trimmed; a run that is empty or all blank has
   no pieces *)
ArgTrimmed(src) == [k \in 1..Len(src.pieces) |-> Trim(ArgPieces[src.pieces[k]])]

ArgRunBlank(src) == \A k \in 1..Len(ArgRun(src)) : ArgRun(src)[k] \in WhiteSpace

DropBlankLast(ss) ==
  IF Len(ss) > 0 /\ ss[Len(ss)] = <<>> THEN SubSeq(ss, 1, Len(ss) - 1) ELSE ss

EchoStep(prog) ==
  /\ HasOnlyStep(prog)
  /\ OnlyStep(prog).kind = "Regular"
  /\ OnlyStep(prog).name = <<"e","c","h","o">>
  /\ OnlyStep(prog).config = <<"x">>

(* C7 as stated: the args are exactly the trimmed pieces, every one of them *)
C7_EveryPiece ==
  Returned =>
    /\ EchoStep(program)
    /\ OnlyStep(program).args = IF ArgRunBlank(source) THEN <<>> ELSE ArgTrimmed(source)

(* C7: the args are the trimmed pieces in order, without the last piece when
   that one is empty or blank (a trailing comma adds no argument); a comma
   in a string or in a nested bracket is inside one piece and splits nothing *)
C7_ArgsSplit ==
  Returned =>
    /\ EchoStep(program)
    /\ OnlyStep(program).args =
         IF ArgRunBlank(source) THEN <<>> ELSE DropBlankLast(ArgTrimmed(source))

(* `echo(a, "b,c", [d,e]): x` was parsed into three args *)
C7_Witness ==
  /\ phase = "parsed"
  /\ text = <<"G","E","T"," ","/","x",NL," "," ","|",">"," ","e","c","h","o","(","a",","," ",DQ,"b",",","c",DQ,","," ","[","d",",","e","]",")",":"," ","x">>
  /\ OnlyStep(program).args = <<<<"a">>, <<DQ,"b",",","c",DQ>>, <<"[","d",",","e","]">>>>

----------------------------------------------------------------------------
(* C8: the returned diagnostics hold exactly one "Unclosed backtick-delimited
   string" entry, at [i, i+1) for i the offset of the last backtick, when the
   text has an odd number of backticks, and none when it has an even number;
   and the parse did not raise *)
LastBacktick(t) ==
  CHOOSE i \in 0..(Len(t) - 1) : t[i + 1] = BT /\ \A j \in (i + 2)..Len(t) : t[j] # BT

Unclosed(ds) == SelectSeq(ds, LAMBDA d : d.message = "Unclosed backtick-delimited string")

C8_UnclosedBacktick ==
  Returned =>
    /\ ~raised
    /\ IF CountOf(text, BT) % 2 = 1
       THEN /\ Len(Unclosed(diagnostics)) = 1
            /\ Unclosed(diagnostics)[1].start = LastBacktick(text)
            /\ Unclosed(diagnostics)[1].end = LastBacktick(text) + 1
       ELSE Len(Unclosed(diagnostics)) = 0

(* three backticks, the last one not the last character of the text *)
C8_Witness ==
  /\ phase = "parsed"
  /\ CountOf(text, BT) = 3
  /\ Len(Unclosed(diagnostics)) = 1
  /\ LastBacktick(text) + 1 < Len(text)

----------------------------------------------------------------------------
(* C9: a turn of the top-level loop in which no alternative matched (the
   Program is left as it was) adds exactly one warning, the last diagnostic,
   whose range is the whole line of the cursor, and leaves the cursor past
   that line (at the next line that is not empty, or at the end of the text);
   and the Program of a text with such a line in it is the Program of the
   text before the line followed by the Program of the text after it *)
LineWarnings(ds) ==
  SelectSeq(ds, LAMBDA d : d.severity = "warning"
                           /\ d.message = "Unrecognized or unsupported syntax")

(* the offset of the first character at or after i that is not white space *)
FirstNonBlank(t, i) ==
  CHOOSE s \in i..Len(t) :
    /\ s < Len(t) => t[s + 1] \notin WhiteSpace
    /\ \A j \in (i + 1)..s : t[j] \in WhiteSpace

LineStartOf(t, i) ==
  CHOOSE s \in 0..i : (s > 0 => t[s] = NL) /\ \A j \in (s + 1)..i : t[j] # NL

LineEndOf(t, i) ==
  CHOOSE e \in i..Len(t) : (e < Len(t) => t[e + 1] = NL) /\ \A j \in (i + 1)..e : t[j] # NL

MergePrograms(a, b) ==
  [f \in DOMAIN a |->
     IF f \in {"graphqlSchema", "featureFlags"}
     THEN (IF b[f] # <<>> THEN b[f] ELSE a[f])
     ELSE a[f] \o b[f]]

ProgramOf(t) == StripProgram(parseProgramWithDiagnostics(t).program)

C9_RecoveryTurn ==
  (phase = "parsing" /\ phase' = "parsing" /\ program' = program) =>
    LET start == FirstNonBlank(text, pos)
        lineEnd == LineEndOf(text, start)
    IN /\ Len(LineWarnings(diagnostics')) = Len(LineWarnings(diagnostics)) + 1
       /\ diagnostics'[Len(diagnostics')] =
            [message |-> "Unrecognized or unsupported syntax",
             start |-> LineStartOf(text, start), end |-> lineEnd,
             severity |-> "warning"]
       /\ pos' > lineEnd \/ pos' = Len(text)
       /\ \A j \in (lineEnd + 1)..pos' : text[j] = NL
       /\ pos' < Len(text) => text[pos' + 1] # NL

C9_SplitsAtLine ==
  phase = "parsed" =>
    \A k \in 1..Len(source) :
      LET before == FragmentText(SubSeq(source, 1, k - 1))
          after == FragmentText(SubSeq(source, k + 1, Len(source)))
      IN (Fragments[source[k]] = GarbageLine /\ CountOf(before, BT) % 2 = 0) =>
           StripProgram(program) = MergePrograms(ProgramOf(before), ProgramOf(after))

C9_LineRecovery == [][C9_RecoveryTurn]_vars /\ []C9_SplitsAtLine

(* a line nothing accepts between two variable declarations, and the
   variable that starts on the line after it is in the Program *)
C9_Witness ==
  /\ phase = "parsed"
  /\ Len(source) = 3
  /\ Fragments[source[2]] = GarbageLine
  /\ Fragments[source[1]] = Fragments[source[3]]
  /\ Len(program.variables) = 2
  /\ Len(LineWarnings(diagnostics)) = 1

----------------------------------------------------------------------------
(* C10: every Regular step of the Program is printed with its config in the
   recorded quoting form, and the Regular steps of the Program parsed from
   the printed text have the same configs and configTypes, in the same order *)
RegularSteps(prog) == SelectSeq(ProgramSteps(prog), LAMBDA st : st.kind = "Regular")

ConfigForms(prog) ==
  MapSeq(RegularSteps(prog),
         LAMBDA st : [config |-> st.config, configType |-> st.configType])

QuotingForm(st) ==
  IF st.configType = "backtick" THEN <<BT>> \o st.config \o <<BT>>
  ELSE IF st.configType = "quoted" THEN <<DQ>> \o st.config \o <<DQ>>
  ELSE st.config

Contains(t, sub) == \E i \in 0..(Len(t) - Len(sub)) : StartsWith(t, sub, i)

C10_QuotingPreserved ==
  /\ phase \in {"printed", "reparsed"} =>
       \A k \in 1..Len(RegularSteps(program)) :
         Contains(printed, RegularSteps(program)[k].name)
         /\ Contains(printed, <<":", " ">> \o QuotingForm(RegularSteps(program)[k]))
  /\ phase = "reparsed" => ConfigForms(reparsed.program) = ConfigForms(program)

----------------------------------------------------------------------------
(* Tag argument lists.  A step `|> s: c` guarded by a drawn tag, alone or
   after a well-formed tag, in a drawn place: the only step of a route, the
   second step of a route, a step of an else branch, the condition of a
   dispatch case, the only step of a named pipeline *)

GuardTags == <<
  [text |-> <<"@","f","l","a","g","(",")">>, malformed |-> TRUE],
  [text |-> <<"@","f","l","a","g","("," ",")">>, malformed |-> TRUE],
  [text |-> <<"@","f","l","a","g","(","f","o","o",",",")">>, malformed |-> TRUE],
  [text |-> <<"@","f","l","a","g","(","f","o","o"," ",","," ",")">>, malformed |-> TRUE],
  [text |-> <<"@">>, malformed |-> TRUE],
  [text |-> <<"@","!">>, malformed |-> TRUE],
  [text |-> <<"@","f","l","a","g","(","f","o","o",")">>, malformed |-> FALSE],
  [text |-> <<"@","f","l","a","g","("," ",BT,"a"," ","b",BT," ",","," ","b","a","r"," ",")">>, malformed |-> FALSE],
  [text |-> <<"@","!","f","l","a","g","(","f","o","o",",","b","a","r",")">>, malformed |-> FALSE]
>>

GuardPrefixes == <<<<>>, <<"@","a"," ">>, <<"@","a"," ","a","n","d"," ">>, <<"@","a"," ","o","r"," ">>>>

GuardPlaces == <<
  [before |-> <<"G","E","T"," ","/","x",NL," "," ","|",">"," ","s",":"," ","c"," ">>, after |-> <<>>],
  [before |-> <<"G","E","T"," ","/","x",NL," "," ","|",">"," ","a",":"," ","b",NL," "," ","|",">"," ","s",":"," ","c"," ">>, after |-> <<>>],
  [before |-> <<"G","E","T"," ","/","x",NL," "," ","|",">"," ","i","f",NL," "," "," "," ","|",">"," ","a",":"," ","b",NL," "," "," "," ","t","h","e","n",":",NL," "," "," "," "," "," ","|",">"," ","d",":"," ","e",NL," "," "," "," ","e","l","s","e",":",NL," "," "," "," "," "," ","|",">"," ","s",":"," ","c"," ">>,
   after |-> <<NL," "," ","e","n","d">>],
  [before |-> <<"G","E","T"," ","/","x",NL," "," ","|",">"," ","d","i","s","p","a","t","c","h",NL," "," "," "," ","c","a","s","e"," ">>, after |-> <<":",NL," "," "," "," "," "," ","|",">"," ","s",":"," ","c",NL," "," ","e","n","d">>],
  [before |-> <<"p","i","p","e","l","i","n","e"," ","t","e","s","t"," ","=",NL," "," ","|",">"," ","s",":"," ","c"," ">>, after |-> <<>>]
>>

GuardSources ==
  [place : 1..Len(GuardPlaces), prefix : 1..Len(GuardPrefixes), tag : 1..Len(GuardTags)]

GuardText(src) ==
  GuardPlaces[src.place].before \o GuardPrefixes[src.prefix] \o GuardTags[src.tag].text
    \o GuardPlaces[src.place].after

InitGuard ==
  /\ source \in GuardSources
  /\ text = GuardText(source)
  /\ Constructed

SpecGuard == InitGuard /\ [][Next]_vars

(* the tags of a tag expression, and the tags of a Program: those of the
   conditions of its steps and of its dispatch cases *)
RECURSIVE TagsOfExpr(_)
TagsOfExpr(e) ==
  IF e.kind = "Tag" THEN <<e.tag>> ELSE TagsOfExpr(e.left) \o TagsOfExpr(e.right)

TagsOfStep(st) ==
  IF st.kind = "Regular" THEN Flatten(MapSeq(st.condition, TagsOfExpr))
  ELSE IF st.kind = "Dispatch"
  THEN Flatten(MapSeq(st.branches, LAMBDA b : TagsOfExpr(b.condition)))
  ELSE <<>>

ProgramTags(prog) == Flatten(MapSeq(ProgramSteps(prog), TagsOfStep))

StepNames(prog) == MapSeq(RegularSteps(prog), LAMBDA st : st.name)

(* C11: no tag of the returned Program has an empty name, and none of the
   tags written with parentheses (here the tags named flag) has an empty
   argument list; when the drawn tag is written with empty parentheses, with
   a trailing comma or without a name, the rule around it failed: the Program
   has neither a tag named flag nor the step `s` nor the dispatch case, and
   the parse did not raise *)
C11_TagArgsNonEmpty ==
  Returned =>
    /\ ~raised
    /\ \A k \in 1..Len(ProgramTags(program)) :
         /\ ProgramTags(program)[k].name # <<>>
         /\ ProgramTags(program)[k].name = <<"f","l","a","g">> => Len(ProgramTags(program)[k].args) >= 1
    /\ GuardTags[source.tag].malformed =>
         /\ \A k \in 1..Len(ProgramTags(program)) : ProgramTags(program)[k].name # <<"f","l","a","g">>
         /\ \A k \in 1..Len(StepNames(program)) : StepNames(program)[k] # <<"s">>
         /\ \A k \in 1..Len(ProgramSteps(program)) :
              ProgramSteps(program)[k].kind = "Dispatch" =>
                ProgramSteps(program)[k].branches = <<>>

(* `@a and @flag(foo,)` on the step of a named pipeline: the pipeline is not
   in the Program, and its line was recovered from *)
C11_Witness ==
  /\ phase = "parsed"
  /\ text = <<"p","i","p","e","l","i","n","e"," ","t","e","s","t"," ","=",NL," "," ","|",">"," ","s",":"," ","c"," ","@","a"," ","a","n","d"," ","@","f","l","a","g","(","f","o","o",",",")">>
  /\ program.pipelines = <<>>
  /\ Len(LineWarnings(diagnostics)) >= 1

----------------------------------------------------------------------------
(* Pipeline references.  A route `GET /x` with a drawn body, after a drawn
   run of declarations.  wellFormed: the body begins with the step
   `|> pipeline: NAME` and every step of it is well-formed *)

RefBodies == <<
  [text |-> <<NL," "," ","|",">"," ","p","i","p","e","l","i","n","e",":"," ","p">>, wellFormed |-> TRUE, name |-> <<"p">>],
  [text |-> <<NL," "," ","|",">"," ","p","i","p","e","l","i","n","e",":"," ","g","e","t","U","s","e","r">>, wellFormed |-> TRUE, name |-> <<"g","e","t","U","s","e","r">>],
  [text |-> <<NL," "," ","|",">"," ","p","i","p","e","l","i","n","e",":"," ","p",NL," "," ","|",">"," ","j","q",":"," ",BT,"a",BT>>, wellFormed |-> TRUE, name |-> <<"p">>],
  [text |-> <<NL," "," ","|",">"," ","p","i","p","e","l","i","n","e",":"," ","p"," ","@","d","e","v">>, wellFormed |-> TRUE, name |-> <<"p">>],
  [text |-> <<NL,"|",">"," ","p","i","p","e","l","i","n","e",":"," ","p",NL>>, wellFormed |-> TRUE, name |-> <<"p">>],
  [text |-> <<" ","|",">"," ","p","i","p","e","l","i","n","e",":"," ","p">>, wellFormed |-> TRUE, name |-> <<"p">>],
  [text |-> <<NL," "," ","|",">"," ","p","i","p","e","l","i","n","e",":"," ","p",NL," "," ","|",">"," ","l","o","g",":"," ",BT,"b">>, wellFormed |-> FALSE, name |-> <<"p">>],
  [text |-> <<NL," "," ","|",">"," ","p","i","p","e","l","i","n","e",":"," ","p",NL," "," ","|",">"," ","l","o","g","(",":"," ","b">>, wellFormed |-> FALSE, name |-> <<"p">>],
  [text |-> <<>>, wellFormed |-> FALSE, name |-> <<>>],
  [text |-> <<NL," "," ","|",">"," ","p","i","p","e","l","i","n","e",":"," ">>, wellFormed |-> FALSE, name |-> <<>>],
  [text |-> <<NL," "," ","|",">"," ","p","i","p","e","l","i","n","e",":"," ",DQ,"p",DQ>>, wellFormed |-> FALSE, name |-> <<"p">>],
  [text |-> <<NL," "," ","|",">"," ","j","q",":"," ",BT,"a",BT,NL," "," ","|",">"," ","p","i","p","e","l","i","n","e",":"," ","p">>, wellFormed |-> FALSE, name |-> <<"p">>]
>>

RefBefores == <<<<>>, <<"p","i","p","e","l","i","n","e"," ","p"," ","=",NL," "," ","|",">"," ","j","q",":"," ",BT,"a",BT,NL,NL>>, <<"#","n","o","t","e",NL>>>>

RefHead == <<"G","E","T"," ","/","x">>

RefSources == [before : 1..Len(RefBefores), body : 1..Len(RefBodies)]

RefText(src) == RefBefores[src.before] \o RefHead \o RefBodies[src.body].text

InitRef ==
  /\ source \in RefSources
  /\ text = RefText(source)
  /\ Constructed

SpecRef == InitRef /\ [][Next]_vars

(* the parser as parseRoute hands it to parsePipelineRef *)
RefParser(src) ==
  skipSpaces(At(NewParser(RefText(src)), Len(RefBefores[src.before]) + Len(RefHead)))

(* the first tryParse of parsePipelineRef, and whether its second was run:
   it returned the Named reference, or it is one more attempt in the log *)
RefInline(p) == tryParse(p, this("parsePipeline", p))

NamedTried(p) ==
  LET r == this("parsePipelineRef", p)
  IN (r.ok /\ r.v.kind = "Named") \/ Len(r.p.log) > Len(RefInline(p).p.log)

(* C12: the route of a well-formed body `|> pipeline: NAME` is returned with
   an Inline pipeline whose first step is the Regular step named pipeline
   with the config NAME, and parsePipelineRef runs its Named alternative only
   when its inline parse threw or gave no step *)
C12_InlineBeforeNamed ==
  /\ (Returned /\ RefBodies[source.body].wellFormed) =>
        /\ Len(program.routes) = 1
        /\ program.routes[1].pipeline.kind = "Inline"
        /\ LET st == program.routes[1].pipeline.pipeline.steps[1]
           IN /\ st.kind = "Regular"
              /\ st.name = <<"p","i","p","e","l","i","n","e">>
              /\ st.config = RefBodies[source.body].name
              /\ st.configType = "identifier"
  /\ NamedTried(RefParser(source)) =>
        LET inline == RefInline(RefParser(source))
        IN ~inline.some \/ Len(inline.v.steps) = 0
  /\ \A k \in 1..Len(program.routes) :
        program.routes[k].pipeline.kind = "Named" => ~RefBodies[source.body].wellFormed

(* the body `|> pipeline: p` and a second step, after a declaration of the
   pipeline p: the route has the Inline pipeline of both steps *)
C12_Witness ==
  /\ phase = "parsed"
  /\ text = <<"p","i","p","e","l","i","n","e"," ","p"," ","=",NL," "," ","|",">"," ","j","q",":"," ",BT,"a",BT,NL,NL,"G","E","T"," ","/","x",NL," "," ","|",">"," ","p","i","p","e","l","i","n","e",":"," ","p",NL," "," ","|",">"," ","j","q",":"," ",BT,"a",BT>>
  /\ Len(program.routes) = 1
  /\ program.routes[1].pipeline.kind = "Inline"
  /\ Len(program.routes[1].pipeline.pipeline.steps) = 2
  /\ program.routes[1].pipeline.pipeline.steps[1].name = <<"p","i","p","e","l","i","n","e">>
  /\ ~NamedTried(RefParser(source))

----------------------------------------------------------------------------
(* Blocks.  A dispatch or if block in a drawn place, closed by `end` or not,
   with up to MaxFollow steps written after it.  cases: the number of steps
   written in each case; rest: the number written in the default branch (of a
   dispatch) or the else branch (of an if), none when there is no such branch *)

MaxFollow == 2

BlockTexts == <<
  [kind |-> "Dispatch", cases |-> <<1>>, rest |-> <<>>,
   text |-> <<" "," ","|",">"," ","d","i","s","p","a","t","c","h",NL," "," "," "," ","c","a","s","e"," ","@","a",":",NL," "," "," "," "," "," ","|",">"," ","a",":"," ","b">>],
  [kind |-> "Dispatch", cases |-> <<1, 2>>, rest |-> <<>>,
   text |-> <<" "," ","|",">"," ","d","i","s","p","a","t","c","h",NL," "," "," "," ","c","a","s","e"," ","@","a",":",NL," "," "," "," "," "," ","|",">"," ","a",":"," ","b",NL," "," "," "," ","c","a","s","e"," ","@","b"," ","a","n","d"," ","@","c",":",NL," "," "," "," "," "," ","|",">"," ","c",":"," ","d",NL," "," "," "," "," "," ","|",">"," ","e",":"," ","f">>],
  [kind |-> "Dispatch", cases |-> <<1>>, rest |-> <<1>>,
   text |-> <<" "," ","|",">"," ","d","i","s","p","a","t","c","h",NL," "," "," "," ","c","a","s","e"," ","@","a",":",NL," "," "," "," "," "," ","|",">"," ","a",":"," ","b",NL," "," "," "," ","d","e","f","a","u","l","t",":",NL," "," "," "," "," "," ","|",">"," ","g",":"," ","h">>],
  [kind |-> "Dispatch", cases |-> <<>>, rest |-> <<1>>,
   text |-> <<" "," ","|",">"," ","d","i","s","p","a","t","c","h",NL," "," "," "," ","d","e","f","a","u","l","t",":",NL," "," "," "," "," "," ","|",">"," ","g",":"," ","h">>],
  [kind |-> "Dispatch", cases |-> <<>>, rest |-> <<>>,
   text |-> <<" "," ","|",">"," ","d","i","s","p","a","t","c","h">>],
  [kind |-> "If", cases |-> <<1>>, rest |-> <<>>,
   text |-> <<" "," ","|",">"," ","i","f",NL," "," "," "," ","|",">"," ","i",":"," ","j",NL," "," "," "," ","t","h","e","n",":",NL," "," "," "," "," "," ","|",">"," ","a",":"," ","b">>],
  [kind |-> "If", cases |-> <<1>>, rest |-> <<1>>,
   text |-> <<" "," ","|",">"," ","i","f",NL," "," "," "," ","|",">"," ","i",":"," ","j",NL," "," "," "," ","t","h","e","n",":",NL," "," "," "," "," "," ","|",">"," ","a",":"," ","b",NL," "," "," "," ","e","l","s","e",":",NL," "," "," "," "," "," ","|",">"," ","g",":"," ","h">>]
>>

BlockEnd == <<NL," "," ","e","n","d">>

(* the j-th step written after the block, and its name *)
FollowNames == <<<<"x">>, <<"z">>, <<"k">>>>
FollowName(j) == FollowNames[((j - 1) % Len(FollowNames)) + 1]
FollowStep(j) == <<NL," "," ","|",">"," ">> \o FollowName(j) \o <<":"," ","y">>

(* where the block is written; index: its place among the steps of the
   pipeline that encloses it *)
BlockPlaces == <<
  [before |-> <<"G","E","T"," ","/","x",NL>>, after |-> <<>>, index |-> 1],
  [before |-> <<"G","E","T"," ","/","x",NL," "," ","|",">"," ","p",":"," ","q",NL>>, after |-> <<>>, index |-> 2],
  [before |-> <<"G","E","T"," ","/","x",NL," "," ","|",">"," ","i","f",NL," "," "," "," ","|",">"," ","m",":"," ","n",NL," "," "," "," ","t","h","e","n",":",NL>>, after |-> <<NL," "," ","e","n","d">>, index |-> 1],
  [before |-> <<"p","i","p","e","l","i","n","e"," ","t"," ","=",NL>>, after |-> <<>>, index |-> 1],
  [before |-> <<"G","E","T"," ","/","x",NL," "," ","|",">"," ","d","i","s","p","a","t","c","h",NL," "," "," "," ","c","a","s","e"," ","@","z",":",NL>>, after |-> <<NL," "," ","e","n","d",NL," "," ","|",">"," ","u",":"," ","v">>, index |-> 1]
>>

BlockSources ==
  [place : 1..Len(BlockPlaces), block : 1..Len(BlockTexts), closed : BOOLEAN,
   follow : 0..MaxFollow]

BlockText(src) ==
  BlockPlaces[src.place].before \o BlockTexts[src.block].text
    \o (IF src.closed THEN BlockEnd ELSE <<>>)
    \o Flatten([j \in 1..src.follow |-> FollowStep(j)])
    \o BlockPlaces[src.place].after

InitBlock ==
  /\ source \in BlockSources
  /\ text = BlockText(source)
  /\ Constructed

SpecBlock == InitBlock /\ [][Next]_vars

(* the steps of the pipeline the block of the source is written in *)
EnclosingSteps(prog, src) ==
  IF src.place = 4 THEN prog.pipelines[1].pipeline.steps
  ELSE LET steps == prog.routes[1].pipeline.pipeline.steps
       IN IF src.place = 3 THEN steps[1].thenBranch.steps
          ELSE IF src.place = 5 THEN steps[1].branches[1].pipeline.steps
          ELSE steps

HasEnclosing(prog, src) ==
  IF src.place = 4 THEN Len(prog.pipelines) = 1
  ELSE /\ Len(prog.routes) = 1
       /\ prog.routes[1].pipeline.kind = "Inline"
       /\ LET steps == prog.routes[1].pipeline.pipeline.steps
          IN /\ Len(steps) >= 1
             /\ src.place = 3 => steps[1].kind = "If"
             /\ src.place = 5 => steps[1].kind = "Dispatch" /\ Len(steps[1].branches) = 1

(* the step st is the block as it was written: its branches and their steps *)
BlockAsWritten(st, blk) ==
  LET sizes(pl) == [k \in 1..Len(pl) |-> Len(pl[k].steps)]
  IN /\ st.kind = blk.kind
     /\ IF blk.kind = "Dispatch"
        THEN /\ sizes(MapSeq(st.branches, LAMBDA b : b.pipeline)) = blk.cases
             /\ sizes(st["default"]) = blk.rest
        ELSE /\ sizes(<<st.thenBranch>>) = blk.cases
             /\ sizes(st.elseBranch) = blk.rest

(* the steps after the k-th of steps are the first n follow steps, in order *)
FollowedBy(steps, k, n) ==
  /\ Len(steps) = k + n
  /\ \A j \in 1..n : steps[k + j].kind = "Regular" /\ steps[k + j].name = FollowName(j)

(* C13: a dispatch block closed by `end` is returned with the cases and the
   default branch as they were written, and the steps written after the `end`
   are the steps that follow the Dispatch step in the enclosing pipeline, in
   source order *)
C13_DispatchEnds ==
  (Returned /\ BlockTexts[source.block].kind = "Dispatch" /\ source.closed) =>
     /\ HasEnclosing(program, source)
     /\ LET steps == EnclosingSteps(program, source)
            k == BlockPlaces[source.place].index
        IN /\ Len(steps) >= k
           /\ BlockAsWritten(steps[k], BlockTexts[source.block])
           /\ FollowedBy(steps, k, source.follow)

(* a dispatch with a case and a default branch, closed, and two steps after
   the `end`: the route has three steps and the default branch one *)
C13_Witness ==
  /\ phase = "parsed"
  /\ source = [place |-> 1, block |-> 3, closed |-> TRUE, follow |-> 2]
  /\ Len(program.routes[1].pipeline.pipeline.steps) = 3
  /\ Len(program.routes[1].pipeline.pipeline.steps[1]["default"][1].steps) = 1

----------------------------------------------------------------------------
(* C20: when the pipeline that encloses the block was returned with an If or
   Dispatch step followed by further steps, the text prettyPrint gives for
   the Program parses back to that pipeline with the same steps: as many
   top-level steps, the block with the same branches, and the steps after it
   still after it *)
C20_BlockRoundTrip ==
  (/\ phase = "reparsed"
   /\ HasEnclosing(program, source)
   /\ LET steps == EnclosingSteps(program, source)
          k == BlockPlaces[source.place].index
      IN Len(steps) > k /\ steps[k].kind \in {"If", "Dispatch"})
  => /\ HasEnclosing(reparsed.program, source)
     /\ LET a == EnclosingSteps(program, source)
            b == EnclosingSteps(reparsed.program, source)
            k == BlockPlaces[source.place].index
        IN /\ Len(b) = Len(a)
           /\ b[k] = a[k]
           /\ \A j \in (k + 1)..Len(a) : b[j] = a[j]

----------------------------------------------------------------------------
(* the number of Or nodes of the tree e that are the left or right operand of
   an And node, and the number of parentheses of the text t that open a group
   (those of a tag's argument list come right after its name) *)
RECURSIVE OrUnderAnd(_)
OrUnderAnd(e) ==
  IF e.kind = "Tag" THEN 0
  ELSE OrUnderAnd(e.left) + OrUnderAnd(e.right)
       + (IF e.kind = "And" /\ e.left.kind = "Or" THEN 1 ELSE 0)
       + (IF e.kind = "And" /\ e.right.kind = "Or" THEN 1 ELSE 0)

GroupOpens(t) ==
  Cardinality({i \in 1..Len(t) : t[i] = "(" /\ (i = 1 \/ t[i - 1] \in {" ", "("})})

(* C19: the guard of the returned step, printed by formatTagExpr and parsed
   again, is the same tree; and formatTagExpr opens one group for each Or that
   is an operand of an And, and no other *)
C19_TagExprRoundTrip ==
  (Returned /\ HasOnlyStep(program) /\ GuardOf(program) # <<>>) =>
     /\ GroupOpens(formatTagExpr(GuardOf(program)[1])) = OrUnderAnd(GuardOf(program)[1])
     /\ phase = "reparsed" =>
          /\ HasOnlyStep(reparsed.program)
          /\ GuardOf(reparsed.program) = GuardOf(program)

----------------------------------------------------------------------------
(* Comments inside pipelines.  A declaration written line by line, with a
   full-line comment put after each line of a drawn set of at most
   MaxComments lines.  steps: the number of steps the declaration has, the
   nested ones included *)

MaxComments == 2

CommentBases == <<
  [steps |-> 2, lines |-> <<<<"G","E","T"," ","/","x">>, <<" "," ","|",">"," ","j","q",":"," ",BT,"a",BT>>, <<" "," ","|",">"," ","h",":"," ",DQ,"b",DQ," ","@","d","e","v">>>>],
  [steps |-> 5, lines |-> <<<<"G","E","T"," ","/","x">>, <<" "," ","|",">"," ","i","f">>, <<" "," "," "," ","|",">"," ","c",":"," ","d">>, <<" "," "," "," ","t","h","e","n",":">>, <<" "," "," "," "," "," ","|",">"," ","e",":"," ","f">>,
                            <<" "," "," "," ","e","l","s","e",":">>, <<" "," "," "," "," "," ","|",">"," ","g",":"," ","h">>, <<" "," ","e","n","d">>, <<" "," ","|",">"," ","i",":"," ","j">>>>],
  [steps |-> 5, lines |-> <<<<"G","E","T"," ","/","x">>, <<" "," ","|",">"," ","d","i","s","p","a","t","c","h">>, <<" "," "," "," ","c","a","s","e"," ","@","a",":">>, <<" "," "," "," "," "," ","|",">"," ","a",":"," ","b">>,
                            <<" "," "," "," ","c","a","s","e"," ","@","b",":">>, <<" "," "," "," "," "," ","|",">"," ","c",":"," ","d">>, <<" "," "," "," ","d","e","f","a","u","l","t",":">>, <<" "," "," "," "," "," ","|",">"," ","e",":"," ","f">>,
                            <<" "," ","e","n","d">>, <<" "," ","|",">"," ","i",":"," ","j">>>>],
  [steps |-> 4, lines |-> <<<<"G","E","T"," ","/","x">>, <<" "," ","|",">"," ","r","e","s","u","l","t">>, <<" "," "," "," ","o","k","(","2","0","0",")",":">>, <<" "," "," "," "," "," ","|",">"," ","a",":"," ","b">>,
                            <<" "," "," "," "," "," ","|",">"," ","c",":"," ","d">>, <<" "," "," "," ","d","e","f","a","u","l","t","(","5","0","0",")",":">>, <<" "," "," "," "," "," ","|",">"," ","e",":"," ","f">>>>],
  [steps |-> 3, lines |-> <<<<"p","i","p","e","l","i","n","e"," ","p"," ","=">>, <<" "," ","|",">"," ","f","o","r","e","a","c","h"," ","d","a","t","a",".","r","o","w","s">>, <<" "," "," "," ","|",">"," ","a",":"," ","b">>, <<" "," ","e","n","d">>,
                            <<" "," ","|",">"," ","c",":"," ","d">>>>]
>>

CommentLines == <<<<" "," ","#"," ","n","o","t","e">>, <<"/","/"," ","n","o","t","e">>, <<" "," "," "," ","#"," ","e","n","d">>, <<" "," ","/","/"," ","|",">"," ","z",":"," ",BT,"w",BT>>, <<"#">>, <<" "," ","#"," ","t","h","e","n",":"," ","e","l","s","e",":"," ","c","a","s","e"," ","@","q",":"," ","d","e","f","a","u","l","t",":">>>>

CommentSources ==
  UNION {[base : {b}, style : 1..Len(CommentLines),
          at : {s \in SUBSET (1..Len(CommentBases[b].lines)) : Cardinality(s) <= MaxComments}]
           : b \in 1..Len(CommentBases)}

(* the lines of the base b with the comment c after each line of the set at *)
CommentedLines(b, at, c) ==
  Flatten([k \in 1..Len(CommentBases[b].lines) |->
             IF k \in at THEN <<CommentBases[b].lines[k], c>> ELSE <<CommentBases[b].lines[k]>>])

CommentText(src) ==
  JoinWith(CommentedLines(src.base, src.at, CommentLines[src.style]), <<NL>>)

BaseText(b) == JoinWith(CommentBases[b].lines, <<NL>>)

InitComment ==
  /\ source \in CommentSources
  /\ text = CommentText(source)
  /\ Constructed

SpecComment == InitComment /\ [][Next]_vars

(* the pipelines of a Program: those of its routes and its named pipelines *)
PipelinesOf(prog) ==
  [routes |-> MapSeq(prog.routes, LAMBDA r : r.pipeline),
   pipelines |-> MapSeq(prog.pipelines, LAMBDA n : [name |-> n.name, pipeline |-> n.pipeline])]

(* C14: the pipelines returned for a declaration with full-line comments
   after any of its lines are the pipelines returned for the declaration
   without the comments: the same steps and branches, nested the same way *)
C14_CommentsTransparent ==
  Returned =>
    /\ ~raised
    /\ Len(ProgramSteps(program)) = CommentBases[source.base].steps
    /\ PipelinesOf(program)
         = PipelinesOf(parseProgramWithDiagnostics(BaseText(source.base)).program)

(* the dispatch block with a comment before `case @b:` and one before
   `default:` was parsed: its two cases and its default branch are there *)
C14_Witness ==
  /\ phase = "parsed"
  /\ source.base = 3
  /\ source.at = {4, 6}
  /\ source.style = 3
  /\ Len(program.routes) = 1
  /\ Len(program.routes[1].pipeline.pipeline.steps) = 2
  /\ Len(program.routes[1].pipeline.pipeline.steps[1].branches) = 2
  /\ Len(program.routes[1].pipeline.pipeline.steps[1]["default"]) = 1

----------------------------------------------------------------------------
(* Declaration heads.  One declaration of each kind, with a drawn comment (or
   none) written on the line of its head, right after the head, after a drawn
   run of lines.  field: the field of the Program the declaration goes to *)

HeadTexts == <<
  [field |-> "configs", head |-> <<"c","o","n","f","i","g"," ","c"," ","{">>, rest |-> <<NL," "," ","k",":"," ",DQ,"v",DQ,NL,"}">>],
  [field |-> "pipelines", head |-> <<"p","i","p","e","l","i","n","e"," ","p"," ","=">>, rest |-> <<NL," "," ","|",">"," ","a",":"," ","b">>],
  [field |-> "variables", head |-> <<"s","q","l"," ","q"," ","="," ",BT,"s",BT>>, rest |-> <<>>],
  [field |-> "routes", head |-> <<"G","E","T"," ","/","x">>, rest |-> <<NL," "," ","|",">"," ","a",":"," ","b">>],
  [field |-> "describes", head |-> <<"d","e","s","c","r","i","b","e"," ",DQ,"d",DQ>>, rest |-> <<NL>>],
  [field |-> "queries", head |-> <<"q","u","e","r","y"," ","u","s","e","r","s"," ","=">>, rest |-> <<NL," "," ","|",">"," ","a",":"," ","b">>],
  [field |-> "mutations", head |-> <<"m","u","t","a","t","i","o","n"," ","a","d","d"," ","=">>, rest |-> <<NL," "," ","|",">"," ","a",":"," ","b">>],
  [field |-> "resolvers", head |-> <<"r","e","s","o","l","v","e","r"," ","U","s","e","r",".","p","o","s","t","s"," ","=">>, rest |-> <<NL," "," ","|",">"," ","a",":"," ","b">>],
  [field |-> "graphqlSchema", head |-> <<"g","r","a","p","h","q","l","S","c","h","e","m","a"," ","=">>, rest |-> <<NL,BT,"t","y","p","e"," ","Q",BT>>],
  [field |-> "graphqlSchema", head |-> <<"g","r","a","p","h","q","l","S","c","h","e","m","a"," ","=">>, rest |-> <<" ",BT,"t","y","p","e"," ","Q",BT>>]
>>

HeadComments == <<
  [text |-> <<" ","#"," ","n","o","t","e">>, style |-> <<"#">>, body |-> <<" ","n","o","t","e">>],
  [text |-> <<" ","/","/"," ","n","o","t","e">>, style |-> KwSlashes, body |-> <<" ","n","o","t","e">>],
  [text |-> <<"#","n","o","t","e">>, style |-> <<"#">>, body |-> <<"n","o","t","e">>],
  [text |-> <<" "," ","#"," ","a"," ","/","/"," ","b">>, style |-> <<"#">>, body |-> <<" ","a"," ","/","/"," ","b">>],
  [text |-> <<>>, style |-> <<>>, body |-> <<>>]
>>

HeadBefores == <<<<>>, <<"#","t","o","p",NL>>, <<NL,NL>>>>

HeadSources ==
  [before : 1..Len(HeadBefores), head : 1..Len(HeadTexts), comment : 1..Len(HeadComments)]

HeadText(src) ==
  HeadBefores[src.before] \o HeadTexts[src.head].head \o HeadComments[src.comment].text
    \o HeadTexts[src.head].rest

InitHead ==
  /\ source \in HeadSources
  /\ text = HeadText(source)
  /\ Constructed

SpecHead == InitHead /\ [][Next]_vars

(* the comment c is the inline comment written as w *)
IsInline(c, w) == c.type = "inline" /\ c.style = w.style /\ c.text = w.body

(* C15: the declaration with a comment right after its head is returned,
   with that comment as its inlineComment, and the comment is not one of
   Program.comments *)
C15_InlineAttached ==
  (Returned /\ HeadComments[source.comment].style # <<>>) =>
     LET decls == program[HeadTexts[source.head].field]
         w == HeadComments[source.comment]
     IN /\ Len(decls) = 1
        /\ Len(decls[1].inlineComment) = 1
        /\ IsInline(decls[1].inlineComment[1], w)
        /\ \A k \in 1..Len(program.comments) :
             program.comments[k].type = "standalone" /\ program.comments[k].text # w.body

----------------------------------------------------------------------------
(* Named declarations.  Up to MaxDecls declarations of pipelines and
   variables, one after the other, some of them with the same name and some
   that fail *)

MaxDecls == 3

DeclTexts == <<
  <<"p","i","p","e","l","i","n","e"," ","p"," ","=",NL," "," ","|",">"," ","a",":"," ","b">>,
  <<" "," ","p","i","p","e","l","i","n","e"," ","q"," ","=">>,
  <<"p","i","p","e","l","i","n","e"," ","p"," ","="," ","#"," ","a","g","a","i","n",NL," "," ","|",">"," ","c",":"," ","d",NL," "," ","|",">"," ","e",":"," ","f",NL>>,
  <<"s","q","l"," ","q"," ","="," ",BT,"s",BT>>,
  <<"p","g"," ","q"," ","="," ",BT,"t",BT," ","#"," ","c">>,
  <<"s","q","l"," ","q"," ","="," ",BT,"u","v",BT,NL>>,
  <<"s","q","l"," ","r"," ","="," ",BT,"x">>,
  <<"p","i","p","e","l","i","n","e"," ","s"," ","=",NL," "," ","|",">"," ","l","o","g",":"," ",BT,"b">>
>>

DeclSources == UNION {[1..m -> 1..Len(DeclTexts)] : m \in 1..MaxDecls}

DeclText(ds) == JoinWith([k \in 1..Len(ds) |-> DeclTexts[ds[k]]], <<NL>>)

InitDecl ==
  /\ source \in DeclSources
  /\ text = DeclText(source)
  /\ Constructed

SpecDecl == InitDecl /\ [][Next]_vars

(* the key of a variable in variableRanges *)
VariableKey(v) == v.varType \o <<":", ":">> \o v.name

(* the range map m has one range for each key of the declarations decls, and
   no other: that of the last declaration with the key *)
RangesOf(m, decls, Key(_)) ==
  /\ {e.key : e \in m} = {Key(decls[k]) : k \in 1..Len(decls)}
  /\ \A e \in m :
       \E k \in 1..Len(decls) :
          /\ Key(decls[k]) = e.key
          /\ \A j \in (k + 1)..Len(decls) : Key(decls[j]) # e.key
          /\ e.start = decls[k].start
          /\ e.end = decls[k].end
  /\ \A e, f \in m : e.key = f.key => e = f

(* C16: after a parse pipelineRanges has the names of Program.pipelines and
   variableRanges the varType::name of Program.variables, each with the range
   of the last declaration of that name; each range is inside the text, not
   empty, and starts at the first character of the declaration *)
C16_RangesAgree ==
  Returned =>
    /\ RangesOf(pipelineRanges, program.pipelines, LAMBDA n : n.name)
    /\ RangesOf(variableRanges, program.variables, VariableKey)
    /\ \A e \in pipelineRanges \cup variableRanges :
         0 <= e.start /\ e.start < e.end /\ e.end <= Len(text)
    /\ \A e \in pipelineRanges : StartsWith(text, KwPipeline, e.start)
    /\ \A k \in 1..Len(program.variables) :
         StartsWith(text, program.variables[k].varType, program.variables[k].start)

(* the pipeline p declared twice and the variable sql::q once: one range for
   p, that of its second declaration *)
C16_Witness ==
  /\ phase = "parsed"
  /\ source = <<1, 4, 3>>
  /\ Len(program.pipelines) = 2
  /\ Cardinality(pipelineRanges) = 1
  /\ Cardinality(variableRanges) = 1
  /\ \E e \in pipelineRanges : e.key = <<"p">> /\ e.start = program.pipelines[2].start /\ e.start > 0

----------------------------------------------------------------------------
(* Failing alternatives.  A result step whose first branch has a drawn status
   code and a drawn rest (well-formed, or one that makes the branch throw
   after its status code was read), in a drawn place: a route, an if-block
   that has no `then:`, a named pipeline *)

LeakPlaces == <<
  <<"G","E","T"," ","/","x",NL," "," ","|",">"," ","r","e","s","u","l","t",NL," "," "," "," ","o","k","(">>,
  <<"G","E","T"," ","/","x",NL," "," ","|",">"," ","i","f",NL," "," "," "," ","|",">"," ","r","e","s","u","l","t",NL," "," "," "," "," "," ","o","k","(">>,
  <<"p","i","p","e","l","i","n","e"," ","t"," ","=",NL," "," ","|",">"," ","r","e","s","u","l","t",NL," "," "," "," ","o","k","(">>
>>

LeakRests == <<
  <<")",":",NL," "," "," "," "," "," ","|",">"," ","a",":"," ","b">>,
  <<")",NL," "," "," "," "," "," ","|",">"," ","a",":"," ","b">>,
  <<")",":",NL," "," "," "," "," "," ","|",">"," ","l","o","g",":"," ",BT,"b">>,
  <<":",NL," "," "," "," "," "," ","|",">"," ","a",":"," ","b">>,
  <<")",":",NL," "," "," "," "," "," ","|",">"," ","a",":"," ","b",NL," "," "," "," ","o","t","h","e","r","(","9","9",")",":",NL," "," "," "," "," "," ","|",">"," ","c",":"," ","d"," ","@">>
>>

LeakSources == [place : 1..Len(LeakPlaces), digits : 1..Len(StatusDigits), rest : 1..Len(LeakRests)]

LeakText(src) == LeakPlaces[src.place] \o StatusDigits[src.digits].text \o LeakRests[src.rest]

InitLeak ==
  /\ source \in LeakSources
  /\ text = LeakText(source)
  /\ Constructed

SpecLeak == InitLeak /\ [][Next]_vars

(* the result branches of a Program whose status code is outside [100,599] *)
InvalidBranches(prog) ==
  SelectSeq(Flatten(MapSeq(ResultSteps(prog), LAMBDA st : st.branches)),
            LAMBDA b : b.statusCode < StatusMin \/ b.statusCode > StatusMax)

(* C17: what an alternative that failed under tryParse had recorded is not in
   the result: the error diagnostics are one for each result branch of the
   Program with an invalid status code, and pipelineRanges has the names of
   the Program's pipelines and no other *)
C17_NoLeak ==
  Returned =>
    /\ Len(ErrorsOf(diagnostics)) = Len(InvalidBranches(program))
    /\ {e.key : e \in pipelineRanges} = {program.pipelines[k].name : k \in 1..Len(program.pipelines)}

----------------------------------------------------------------------------
(* Progress of the loops: sources made of whole items, each with the
   repetitions the parser loops over *)

MaxItems == 2

LoopItems == <<
  [kind |-> "describe",
   text |-> <<"d","e","s","c","r","i","b","e"," ",DQ,"d",DQ,NL," "," ","l","e","t"," ","x"," ","="," ","1",NL," "," ","w","i","t","h"," ","m","o","c","k"," ","p","g"," ","r","e","t","u","r","n","i","n","g"," ",BT,"[","]",BT,NL," "," ","i","t"," ",DQ,"t",DQ,NL," "," "," "," ","w","h","e","n"," ","c","a","l","l","i","n","g"," ","G","E","T"," ","/","x",NL," "," "," "," ","w","i","t","h"," ","i","n","p","u","t"," ",BT,"{","}",BT,NL," "," "," "," ","a","n","d"," ","w","i","t","h"," ","h","e","a","d","e","r","s"," ",BT,"h",BT,NL," "," "," "," ","t","h","e","n"," ","s","t","a","t","u","s"," ","i","s"," ","2","0","0",NL," "," "," "," ","a","n","d"," ","o","u","t","p","u","t"," ",BT,".","a",BT," ","e","q","u","a","l","s"," ","1",NL," "," "," "," ","a","n","d"," ","s","e","l","e","c","t","o","r"," ",BT,"p",BT," ","e","x","i","s","t","s">>],
  [kind |-> "route",
   text |-> <<"G","E","T"," ","/","r",NL," "," ","|",">"," ","a",":"," ",BT,"b",BT," ","@","x"," ","@","y"," ","@","z",NL," "," ","|",">"," ","d","i","s","p","a","t","c","h",NL," "," "," "," ","c","a","s","e"," ","@","x",":",NL," "," "," "," "," "," ","|",">"," ","c",":"," ",BT,"d",BT,NL," "," "," "," ","c","a","s","e"," ","@","y",":",NL," "," "," "," "," "," ","|",">"," ","e",":"," ",BT,"f",BT,NL," "," ","e","n","d",NL," "," ","|",">"," ","r","e","s","u","l","t",NL," "," "," "," ","o","k","(","2","0","0",")",":",NL," "," "," "," "," "," ","|",">"," ","g",":"," ",BT,"h",BT,NL," "," "," "," ","d","e","f","a","u","l","t","(","5","0","0",")",":",NL," "," "," "," "," "," ","|",">"," ","i",":"," ",BT,"j",BT>>],
  [kind |-> "junk", text |-> <<"?","?"," ","j","u","n","k">>],
  [kind |-> "broken describe",
   text |-> <<"d","e","s","c","r","i","b","e"," ",DQ,"e",DQ,NL," "," ","l","e","t"," ","y"," ","="," ","2",NL," "," ","i","t"," ",DQ,"u",DQ,NL," "," "," "," ","w","h","e","n"," ","e","x","e","c","u","t","i","n","g"," ","p","i","p","e","l","i","n","e"," ","p",NL," "," "," "," ","w","i","t","h"," ","i","n","p","u","t"," ",BT,"{","}",BT,NL," "," "," "," ","a","n","d"," ","w","i","t","h"," ","b","o","d","y"," ",BT,"b",BT,NL," "," "," "," ","a","n","d"," ","w","i","t","h"," ","c","o","o","k","i","e","s"," ",BT,"c",BT,NL," "," "," "," ","t","h","e","n"," ","s","t","a","t","u","s"," ","i","s"," ","2","0","0",NL," "," "," "," ","a","n","d"," ","o","u","t","p","u","t"," ","e","q","u","a","l","s"," ","1",NL," "," ","i","t"," ",DQ,"b","a","d",DQ,NL," "," "," "," ","t","h","e","n"," ","s","t","a","t","u","s"," ","i","s"," ","2","0","0">>],
  [kind |-> "pipeline",
   text |-> <<"p","i","p","e","l","i","n","e"," ","p"," ","=",NL," "," ","|",">"," ","a",":"," ",BT,"b",BT,NL," "," ","|",">"," ","c",":"," ",BT,"d",BT,NL,NL>>],
  [kind |-> "comment", text |-> <<"#"," ","n","o","t","e">>]>>

LoopSources == UNION {[1..n -> 1..Len(LoopItems)] : n \in 1..MaxItems}

LoopText(src) == JoinWith([k \in 1..Len(src) |-> LoopItems[src[k]].text], <<NL>>)

InitLoop ==
  /\ source \in LoopSources
  /\ text = LoopText(source)
  /\ Constructed

SpecLoop == InitLoop /\ [][Next]_vars

(* one turn of each inner loop with the cursor of p where the turn begins:
   whether the loop goes round again (again), and the cursor then (to) *)
LoopTurns(p) ==
  LET q == skipSpaces(p)
      step == this("parsePipelineStep", q)
      branch == tryParse(p, this("parseResultBranch", p))
      case == tryParse(p, this("parseDispatchBranch", p))
      letBinding == tryParse(q, this("parseLetBinding", q))
      withMock == tryParse(letBinding.p, this("parseMock", letBinding.p))
      andMock == tryParse(withMock.p, this("parseAndMock", withMock.p))
      it == tryParse(andMock.p, this("parseIt", andMock.p))
      item == IF letBinding.some THEN letBinding ELSE IF withMock.some THEN withMock
              ELSE IF andMock.some THEN andMock ELSE it
      first == tryParse(p, this("parseWithClauseFirst", p))
      next == tryParse(p, this("parseWithClauseNext", p))
      condition == tryParse(p, this("parseCondition", p))
      s == skipInlineSpaces(p)
      tag == this("parseTag", s)
  IN <<[loop |-> "steps", again |-> StartsWith(q.text, KwPipe, q.pos) /\ step.ok,
        to |-> step.p.pos],
       [loop |-> "result branches", again |-> branch.some, to |-> branch.p.pos],
       [loop |-> "dispatch cases", again |-> case.some, to |-> skipSpaces(case.p).pos],
       [loop |-> "describe items", again |-> item.some, to |-> item.p.pos],
       [loop |-> "with-clauses", again |-> first.some, to |-> first.p.pos],
       [loop |-> "with-clauses", again |-> next.some, to |-> next.p.pos],
       [loop |-> "conditions", again |-> condition.some, to |-> condition.p.pos],
       [loop |-> "implicit tags", again |-> cur(s) = "@" /\ tag.ok, to |-> tag.p.pos]>>

(* from no offset of the text does a loop go round again without having
   moved the cursor on *)
LoopsAdvance ==
  \A q \in 0..Len(text) :
     LET turns == LoopTurns(At(Parser, q))
     IN \A k \in DOMAIN turns : turns[k].again => turns[k].to > q

(* a turn of the top-level loop leaves the cursor further than `start`, the
   cursor after its skipWhitespaceOnly, and a turn that accepted nothing
   leaves it at or after the end of the line *)
TurnAdvances ==
  LET q == skipWhitespaceOnly(Parser)
  IN ParseItem => /\ pos' > q.pos
                  /\ program' = program /\ ~raised' => pos' >= findLineEnd(q, q.pos)

(* C18: the parse terminates: the cursor never leaves the text, every turn of
   the top-level loop of parseProgram ends strictly further than it began (the
   recovery at or after the end of its line), and from every offset a turn of
   an inner loop (steps, result branches, dispatch cases, describe items,
   with-clauses, conditions, implicit tags) that goes round again has consumed
   at least one character (looked at once the parse has returned) *)
C18_Terminates ==
  [][TurnAdvances]_vars /\ [](pos <= Len(text) /\ (phase = "parsed" => LoopsAdvance))

C18_Witness ==
  /\ phase = "parsed"
  /\ \E k \in DOMAIN diagnostics :
        diagnostics[k].message = "Unrecognized or unsupported syntax"
  /\ \E i \in DOMAIN program.describes :
        /\ Len(program.describes[i].variables) > 0
        /\ \E j \in DOMAIN program.describes[i].tests :
              LET t == program.describes[i].tests[j]
              IN Len(t.conditions) > 1 /\ t.input # <<>> /\ t.body # <<>> /\ t.cookies # <<>>
  /\ \E i \in DOMAIN program.routes :
        LET steps == program.routes[i].pipeline.pipeline.steps
        IN /\ Len(steps) > 2
           /\ \E k \in DOMAIN steps :
                 /\ steps[k].kind = "Regular"
                 /\ steps[k].condition # <<>>
                 /\ steps[k].condition[1].kind = "And"
                 /\ steps[k].condition[1].left.kind = "And"
           /\ \E k \in DOMAIN steps : steps[k].kind = "Dispatch" /\ Len(steps[k].branches) > 1
           /\ \E k \in DOMAIN steps : steps[k].kind = "Result" /\ Len(steps[k].branches) > 1

----------------------------------------------------------------------------
(* Implicit-AND folding: a step whose guard is a chain of atoms with any of
   the three separators, followed by what ends the line *)

(* the atoms of TagAtoms drawn here: three tags and one group *)
FoldAtoms == {1, 2, 3, 5}

(* what follows the chain on its line *)
FoldTrails == <<
  <<>>,
  <<" ","#"," ","c">>,
  <<" ","/","/"," ","c">>,
  <<NL," "," ","|",">"," ","t",":"," ","u">>,
  <<" ","x">>>>

FoldSources ==
  UNION {[atoms : [1..n -> FoldAtoms], seps : [1..(n - 1) -> 1..Len(TagSeps)],
          trail : 1..Len(FoldTrails)] : n \in 1..MaxAtoms}

FoldText(src) == TagText(src) \o FoldTrails[src.trail]

InitFold ==
  /\ source \in FoldSources
  /\ text = FoldText(source)
  /\ Constructed

SpecFold == InitFold /\ [][Next]_vars

(* the atoms of the chain before its first single-space separator: the one
   full tag expression *)
FoldHead(src) ==
  LET implicit == {k \in 1..Len(src.seps) : TagSeps[src.seps[k]] = SepImplicit}
      n == IF implicit = {} THEN Len(src.atoms)
           ELSE CHOOSE k \in implicit : \A j \in implicit : k <= j
  IN [atoms |-> SubSeq(src.atoms, 1, n), seps |-> SubSeq(src.seps, 1, n - 1)]

(* the atoms after the head that are folded in: each a bare tag written after
   a single space, up to the first that is not *)
FoldTags(src) ==
  LET h == Len(FoldHead(src).atoms)
      bare(k) == TagSeps[src.seps[k - 1]] = SepImplicit /\ ~TagAtoms[src.atoms[k]].group
      last == CHOOSE m \in h..Len(src.atoms) :
                /\ \A k \in (h + 1)..m : bare(k)
                /\ m < Len(src.atoms) => ~bare(m + 1)
  IN [k \in 1..(last - h) |-> TagAtoms[src.atoms[h + k]].tree]

FoldExpected(src) == FoldLeft("And", <<ExpectedTree(FoldHead(src))>> \o FoldTags(src))

FirstStep(prog) == prog.routes[1].pipeline.pipeline.steps[1]

(* C25: the guard of the step is the one full tag expression that starts the
   chain with each bare tag after it folded in from the left as
   And(expressionSoFar, tag), up to the first thing on the line that is not a
   bare tag; `@a or @b @c` is And(Or(a,b),c), and a comment, a newline or
   another character after the chain is not part of the guard *)
C25_ImplicitWrapsWhole ==
  Returned =>
    /\ Len(program.routes) = 1
    /\ FirstStep(program).condition = <<FoldExpected(source)>>
    /\ (source.atoms = <<1, 2, 3>> /\ TagSeps[source.seps[1]] = SepOr
        /\ TagSeps[source.seps[2]] = SepImplicit) =>
         FirstStep(program).condition = <<AndNode(OrNode(TagA, TagB), TagC)>>

(* `@a or @b @c` before a comment was parsed *)
C25_Witness ==
  /\ phase = "parsed"
  /\ text = <<"G","E","T"," ","/","x",NL," "," ","|",">"," ","s",":"," ","c"," ","@","a"," ","o","r"," ","@","b"," ","@","c"," ","#"," ","c">>
  /\ FirstStep(program).condition = <<AndNode(OrNode(TagA, TagB), TagC)>>

----------------------------------------------------------------------------
(* Operator words: a step whose guard is `@a`, one or two spaces, the word
   `and` or `or`, and what is written right after the word; alone or inside
   a parenthesised group *)

WordHead == <<"G","E","T"," ","/","x",NL," "," ","|",">"," ","s",":"," ","c"," ">>

WordGaps == <<<<" ">>, <<" "," ">>>>

WordOps == <<KwAnd, KwOr>>

(* what is written right after the word; operand: the tree of the operand it
   holds, if it holds one *)
WordAfters == <<
  [text |-> <<" ","@","b">>, operand |-> <<TagB>>],
  [text |-> <<"@","b">>, operand |-> <<TagB>>],
  [text |-> <<"(","@","b",")">>, operand |-> <<TagB>>],
  [text |-> <<TAB,"@","b">>, operand |-> <<TagB>>],
  [text |-> <<"r","o","i","d">>, operand |-> <<>>],
  [text |-> <<"_","x"," ","@","b">>, operand |-> <<>>],
  [text |-> <<"-","x">>, operand |-> <<>>],
  [text |-> <<"9"," ","@","b">>, operand |-> <<>>],
  [text |-> <<"A">>, operand |-> <<>>],
  [text |-> <<" ","x">>, operand |-> <<>>],
  [text |-> <<>>, operand |-> <<>>]>>

WordSources ==
  [gap : 1..Len(WordGaps), op : 1..Len(WordOps), after : 1..Len(WordAfters),
   group : BOOLEAN]

WordChain(src) ==
  <<"@","a">> \o WordGaps[src.gap] \o WordOps[src.op] \o WordAfters[src.after].text

WordText(src) ==
  WordHead \o (IF src.group THEN <<"(">> \o WordChain(src) \o <<")">> ELSE WordChain(src))

InitWord ==
  /\ source \in WordSources
  /\ text = WordText(source)
  /\ Constructed

SpecWord == InitWord /\ [][Next]_vars

(* the character right after the word is an identifier-continuation character *)
WordRunsOn(src) ==
  /\ WordAfters[src.after].text # <<>>
  /\ isIdentCont(WordAfters[src.after].text[1])

(* parseTagExpr from the first character of the chain *)
WordExpr(src) ==
  this("parseTagExpr", At(NewParser(WordText(src)),
                          Len(WordHead) + (IF src.group THEN 1 ELSE 0)))

WordNode(src, right) ==
  IF WordOps[src.op] = KwAnd THEN AndNode(TagA, right) ELSE OrNode(TagA, right)

(* C26: after `@a` the word `and` or `or` is an operator exactly when the
   character right after it is not one of [A-Za-z0-9_-].  When it is one, the
   expression is `@a` alone and the cursor is back right after `@a`, before
   the spaces; when it is not, the word is consumed: the expression is the
   And or Or of `@a` and the operand that follows, and it fails when none
   follows *)
C26_WordBoundary ==
  LET r == WordExpr(source)
      operand == WordAfters[source.after].operand
      afterA == Len(WordHead) + (IF source.group THEN 1 ELSE 0) + 2
  IN /\ WordRunsOn(source) => r.ok /\ r.v = TagA /\ r.p.pos = afterA
     /\ (~WordRunsOn(source) /\ operand # <<>>) =>
          r.ok /\ r.v = WordNode(source, operand[1]) /\ r.p.pos > afterA
     /\ (~WordRunsOn(source) /\ operand = <<>>) => ~r.ok /\ r.p.pos > afterA
     /\ (Returned /\ ~source.group /\ WordRunsOn(source)) =>
          /\ Len(program.routes) = 1
          /\ FirstStep(program).condition = <<TagA>>
     /\ (Returned /\ ~WordRunsOn(source) /\ operand # <<>>) =>
          /\ Len(program.routes) = 1
          /\ FirstStep(program).condition = <<WordNode(source, operand[1])>>

(* `@a android` was parsed: the guard is `@a` and the rest of the line is
   reported *)
C26_Witness ==
  /\ phase = "parsed"
  /\ text = WordHead \o <<"@","a"," ","a","n","d","r","o","i","d">>
  /\ FirstStep(program).condition = <<TagA>>
  /\ Len(diagnostics) = 1

----------------------------------------------------------------------------
(* Tag arguments: a step guarded by one tag with up to MaxTagArgs arguments,
   each written bare or as a backtick string *)

MaxTagArgs == 2

(* each argument as written, and the string it is *)
TagArgForms == <<
  [text |-> <<"x">>, value |-> <<"x">>],
  [text |-> <<"x","-","1">>, value |-> <<"x","-","1">>],
  [text |-> <<BT,"y",BT>>, value |-> <<"y">>],
  [text |-> <<BT,"a"," ","b",BT>>, value |-> <<"a"," ","b">>],
  [text |-> <<BT,"a",",","b",BT>>, value |-> <<"a",",","b">>],
  [text |-> <<BT,BT>>, value |-> <<>>],
  [text |-> <<BT,"1","x",BT>>, value |-> <<"1","x">>],
  [text |-> <<BT,"-","x",BT>>, value |-> <<"-","x">>]>>

TagArgSources ==
  [negated : BOOLEAN,
   args : UNION {[1..n -> 1..Len(TagArgForms)] : n \in 1..MaxTagArgs}]

TagArgText(src) ==
  WordHead \o <<"@">> \o (IF src.negated THEN <<"!">> ELSE <<>>) \o <<"t","a","g","(">>
  \o JoinWith([k \in 1..Len(src.args) |-> TagArgForms[src.args[k]].text], <<","," ">>)
  \o <<")">>

InitTagArg ==
  /\ source \in TagArgSources
  /\ text = TagArgText(source)
  /\ Constructed

SpecTagArg == InitTagArg /\ [][Next]_vars

(* the tag as it was written *)
TagArgWritten(src) ==
  [name |-> <<"t","a","g">>, negated |-> src.negated,
   args |-> [k \in 1..Len(src.args) |-> TagArgForms[src.args[k]].value]]

(* C27: the tag of the returned step is the tag as written, and parsing what
   formatTag prints for it succeeds and gives a tag with the same name,
   negation and arguments, also when an argument was written as a backtick
   string that is empty, starts with a digit or `-`, or holds a space *)
C27_TagRoundTrip ==
  /\ Returned => ProgramTags(program) = <<TagArgWritten(source)>>
  /\ Returned =>
       LET back == this("parseTag", NewParser(formatTag(TagArgWritten(source))))
       IN back.ok /\ back.v = TagArgWritten(source)
  /\ phase = "reparsed" => ProgramTags(reparsed.program) = ProgramTags(program)

----------------------------------------------------------------------------
(* Config values: a config block with up to MaxProps properties, each with a
   value of one of the forms of parseConfigValue *)

MaxProps == 2

(* each value as written, and the ConfigValue it is *)
ConfigValueForms == <<
  [text |-> <<DQ,"s",DQ>>, value |-> [kind |-> "String", value |-> <<"s">>]],
  [text |-> <<DQ,DQ>>, value |-> [kind |-> "String", value |-> <<>>]],
  [text |-> <<DQ,"a"," ","$","b"," ","|","|"," ","c",DQ>>, value |-> [kind |-> "String", value |-> <<"a"," ","$","b"," ","|","|"," ","c">>]],
  [text |-> <<"$","V">>, value |-> [kind |-> "EnvVar", var |-> <<"V">>, default |-> <<>>]],
  [text |-> <<"$","V"," ","|","|"," ",DQ,"d",DQ>>, value |-> [kind |-> "EnvVar", var |-> <<"V">>, default |-> <<<<"d">>>>]],
  [text |-> <<"$","V","|","|",DQ,DQ>>, value |-> [kind |-> "EnvVar", var |-> <<"V">>, default |-> <<<<>>>>]],
  [text |-> <<"t","r","u","e">>, value |-> [kind |-> "Boolean", value |-> TRUE]],
  [text |-> <<"f","a","l","s","e">>, value |-> [kind |-> "Boolean", value |-> FALSE]],
  [text |-> <<"0">>, value |-> [kind |-> "Number", value |-> 0]],
  [text |-> <<"0","4","2">>, value |-> [kind |-> "Number", value |-> 42]]>>

ConfigSources == UNION {[1..n -> 1..Len(ConfigValueForms)] : n \in 1..MaxProps}

ConfigKeys == <<"k", "l", "m", "n">>

ConfigKey(k) == <<ConfigKeys[((k - 1) % Len(ConfigKeys)) + 1]>>

ConfigText(src) ==
  <<"c","o","n","f","i","g"," ","c"," ","{",NL>> \o Flatten([k \in 1..Len(src) |->
                 <<" "," ">> \o ConfigKey(k) \o <<":"," ">> \o ConfigValueForms[src[k]].text
                 \o <<NL>>])
  \o <<"}">>

InitConfig ==
  /\ source \in ConfigSources
  /\ text = ConfigText(source)
  /\ Constructed

SpecConfig == InitConfig /\ [][Next]_vars

ConfigValues(prog) ==
  Flatten(MapSeq(prog.configs,
                 LAMBDA c : MapSeq(c.properties, LAMBDA prop : prop.value)))

ConfigWritten(src) == [k \in 1..Len(src) |-> ConfigValueForms[src[k]].value]

(* C28: the values of the returned config block are the values as written;
   parseConfigValue of what formatConfigValue prints for each of them gives
   that value again, and the Program parsed from the printed text has the
   same values *)
C28_ConfigValueRoundTrip ==
  /\ Returned => ConfigValues(program) = ConfigWritten(source)
  /\ Returned =>
       \A k \in 1..Len(source) :
          LET v == ConfigWritten(source)[k]
              back == this("parseConfigValue", NewParser(formatConfigValue(v)))
          IN back.ok /\ back.v = v
  /\ phase = "reparsed" => ConfigValues(reparsed.program) = ConfigValues(program)

----------------------------------------------------------------------------
(* Step names that begin with a step keyword: a route or a named pipeline
   whose first step is `|> NAME: CONFIG`, alone or before a second step *)

(* the names drawn, and the keyword each begins with *)
KeywordNames == <<
  [name |-> <<"r","e","s","u","l","t","s">>, keyword |-> KwResult],
  [name |-> <<"r","e","s","u","l","t","_","s","e","t">>, keyword |-> KwResult],
  [name |-> <<"i","f","r","a","m","e">>, keyword |-> KwIf],
  [name |-> <<"i","f","s">>, keyword |-> KwIf],
  [name |-> <<"d","i","s","p","a","t","c","h","e","r">>, keyword |-> KwDispatch],
  [name |-> <<"d","i","s","p","a","t","c","h","-","a","l","l">>, keyword |-> KwDispatch],
  [name |-> <<"f","o","r","e","a","c","h","s">>, keyword |-> KwForeach],
  [name |-> <<"f","o","r","e","a","c","h","_","i","t","e","m">>, keyword |-> KwForeach]>>

KeywordConfigs == <<
  [text |-> <<":"," ",BT,"x",BT>>, config |-> <<"x">>, configType |-> "backtick"],
  [text |-> <<":"," ",DQ,"y"," ","z",DQ>>, config |-> <<"y"," ","z">>, configType |-> "quoted"],
  [text |-> <<":"," ","w">>, config |-> <<"w">>, configType |-> "identifier"]>>

KeywordHeads == <<<<"G","E","T"," ","/","x",NL>>, <<"p","i","p","e","l","i","n","e"," ","p"," ","=",NL>>>>

KeywordRests == <<<<>>, <<NL," "," ","|",">"," ","t",":"," ","u">>, <<" ","@","d","e","v",NL," "," ","|",">"," ","t",":"," ","u",NL>>>>

KeywordSources ==
  [head : 1..Len(KeywordHeads), name : 1..Len(KeywordNames),
   config : 1..Len(KeywordConfigs), rest : 1..Len(KeywordRests)]

KeywordText(src) ==
  KeywordHeads[src.head] \o <<" "," ","|",">"," ">> \o KeywordNames[src.name].name
  \o KeywordConfigs[src.config].text \o KeywordRests[src.rest]

InitKeyword ==
  /\ source \in KeywordSources
  /\ text = KeywordText(source)
  /\ Constructed

SpecKeyword == InitKeyword /\ [][Next]_vars

(* the steps of the one route or named pipeline of the Program *)
KeywordSteps(prog) ==
  IF Len(prog.routes) = 1 /\ Len(prog.pipelines) = 0
  THEN prog.routes[1].pipeline.pipeline.steps
  ELSE IF Len(prog.pipelines) = 1 /\ Len(prog.routes) = 0
  THEN prog.pipelines[1].pipeline.steps
  ELSE <<>>

(* C29: the first step is one Regular step with the whole NAME as its name
   and the config as written, whatever keyword NAME begins with; the steps
   after it are returned too and nothing of the text is reported *)
C29_KeywordWholeWord ==
  Returned =>
    LET steps == KeywordSteps(program)
    IN /\ Len(steps) = (IF source.rest = 1 THEN 1 ELSE 2)
       /\ steps[1].kind = "Regular"
       /\ steps[1].name = KeywordNames[source.name].name
       /\ steps[1].config = KeywordConfigs[source.config].config
       /\ steps[1].configType = KeywordConfigs[source.config].configType
       /\ diagnostics = <<>>

----------------------------------------------------------------------------
(* Runs of variables: up to MaxDecls items, one below the other, each a
   variable declaration or an item of another kind *)

VarItems == <<
  [variable |-> TRUE, text |-> <<"s","q","l"," ","a"," ","="," ",BT,"1",BT>>],
  [variable |-> TRUE, text |-> <<"p","g"," ","b"," ","="," ",BT,"2",BT>>],
  [variable |-> FALSE, text |-> <<"G","E","T"," ","/","x",NL," "," ","|",">"," ","a",":"," ",BT,"b",BT>>],
  [variable |-> FALSE, text |-> <<"p","i","p","e","l","i","n","e"," ","p"," ","=",NL," "," ","|",">"," ","c",":"," ",BT,"d",BT>>],
  [variable |-> FALSE, text |-> <<"#"," ","n","o","t","e">>]>>

VarSources == UNION {[1..m -> 1..Len(VarItems)] : m \in 1..MaxDecls}

VarText(src) == JoinWith([k \in 1..Len(src) |-> VarItems[src[k]].text], <<NL>>)

InitVars ==
  /\ source \in VarSources
  /\ text = VarText(source)
  /\ Constructed

SpecVars == InitVars /\ [][Next]_vars

IsVariable(src, k) == VarItems[src[k]].variable

(* C24: in the printed text a variable that is followed by a variable is
   followed by it on the next line, with no blank line between the two,
   whatever comes after them; a variable that is followed by an item of
   another kind is followed by one blank line and that item *)
C24_VariableRuns ==
  phase \in {"printed", "reparsed"} =>
    \A k \in 1..(Len(source) - 1) :
       IsVariable(source, k) =>
         Contains(printed,
                  VarItems[source[k]].text
                  \o (IF IsVariable(source, k + 1) THEN <<NL>> ELSE <<NL, NL>>)
                  \o VarItems[source[k + 1]].text)

----------------------------------------------------------------------------
(* Whole programs: up to MaxDecls declarations, one below the other, among
   them GraphQL schemas and feature-flag pipelines *)

TotalItems == <<
  <<"g","r","a","p","h","q","l","S","c","h","e","m","a"," ","="," ",BT,"t","y","p","e"," ","Q",BT>>,
  <<"g","r","a","p","h","q","l","S","c","h","e","m","a"," ","="," ",BT,"t","y","p","e"," ","R",BT," ","#"," ","c">>,
  <<"f","e","a","t","u","r","e","F","l","a","g","s"," ","=",NL," "," ","|",">"," ","a",":"," ",BT,"b",BT>>,
  <<"f","e","a","t","u","r","e","F","l","a","g","s"," ","=",NL," "," ","|",">"," ","a",":"," ",BT,"b",BT,NL," "," ","|",">"," ","c",":"," ",BT,"d",BT>>,
  <<"G","E","T"," ","/","x",NL," "," ","|",">"," ","a",":"," ",BT,"b",BT>>,
  <<"s","q","l"," ","q"," ","="," ",BT,"s",BT>>,
  <<"q","u","e","r","y"," ","u","s","e","r","s"," ","=",NL," "," ","|",">"," ","a",":"," ",BT,"b",BT>>>>

TotalSources == UNION {[1..m -> 1..Len(TotalItems)] : m \in 1..MaxDecls}

TotalText(src) == JoinWith([k \in 1..Len(src) |-> TotalItems[src[k]]], <<NL>>)

InitTotal ==
  /\ source \in TotalSources
  /\ text = TotalText(source)
  /\ Constructed

SpecTotal == InitTotal /\ [][Next]_vars

(* C23: the Program parsed back from prettyPrint's output holds every
   declaration of the Program that was printed: the GraphQL schema with the
   same SDL, the feature-flags pipeline with the same steps, and the same
   declarations in every other field *)
C23_PrintTotal ==
  phase = "reparsed" =>
    LET back == StripProgram(reparsed.program)
        was == StripProgram(program)
    IN /\ Len(back.graphqlSchema) = Len(was.graphqlSchema)
       /\ \A k \in 1..Len(was.graphqlSchema) :
            back.graphqlSchema[k].sdl = was.graphqlSchema[k].sdl
       /\ Len(back.featureFlags) = Len(was.featureFlags)
       /\ \A k \in 1..Len(was.featureFlags) :
            back.featureFlags[k].steps = was.featureFlags[k].steps
       /\ \A f \in DOMAIN was \ {"graphqlSchema", "featureFlags"} : back[f] = was[f]

----------------------------------------------------------------------------
(* Conditions: one describe with one it-block whose `when` is followed by up
   to MaxConds conditions, one on a line, of every variant parseCondition
   knows *)

MaxConds == 2

CondHead == <<"d","e","s","c","r","i","b","e"," ",DQ,"d",DQ,NL," "," ","i","t"," ",DQ,"t",DQ,NL," "," "," "," ","w","h","e","n"," ","c","a","l","l","i","n","g"," ","G","E","T"," ","/","x">>

CondLines == <<
  <<"t","h","e","n"," ","s","t","a","t","u","s"," ","i","s"," ","2","0","0">>,
  <<"t","h","e","n"," ","o","u","t","p","u","t"," ",BT,".","a",BT," ","e","q","u","a","l","s"," ","1">>,
  <<"a","n","d"," ","h","e","a","d","e","r"," ",DQ,"X",DQ," ","c","o","n","t","a","i","n","s"," ",DQ,"y",DQ>>,
  <<"t","h","e","n"," ","o","u","t","p","u","t"," ","e","q","u","a","l","s"," ",BT,"{",DQ,"a",DQ,":","1","}",BT>>,
  <<"t","h","e","n"," ","c","a","l","l"," ","q","u","e","r","y"," ","u","s","e","r","s"," ","w","i","t","h"," ",BT,"{","}",BT>>,
  <<"a","n","d"," ","c","a","l","l"," ","m","u","t","a","t","i","o","n"," ","a","d","d"," ","w","i","t","h"," ","a","r","g","u","m","e","n","t","s"," ",BT,"{",DQ,"a",DQ,":","1","}",BT>>,
  <<"t","h","e","n"," ","s","e","l","e","c","t","o","r"," ",DQ,"h","1",DQ," ","e","x","i","s","t","s">>,
  <<"t","h","e","n"," ","s","e","l","e","c","t","o","r"," ",DQ,"h","1",DQ," ","d","o","e","s"," ","n","o","t"," ","e","x","i","s","t">>,
  <<"t","h","e","n"," ","s","e","l","e","c","t","o","r"," ",DQ,"h","1",DQ," ","t","e","x","t"," ","e","q","u","a","l","s"," ",DQ,"H","i",DQ>>,
  <<"a","n","d"," ","s","e","l","e","c","t","o","r"," ",DQ,"p",DQ," ","t","e","x","t"," ","c","o","n","t","a","i","n","s"," ",BT,"a"," ","b",BT>>,
  <<"t","h","e","n"," ","s","e","l","e","c","t","o","r"," ",DQ,"l","i",DQ," ","c","o","u","n","t"," ","e","q","u","a","l","s"," ","2">>,
  <<"t","h","e","n"," ","s","e","l","e","c","t","o","r"," ",DQ,"a",DQ," ","a","t","t","r","i","b","u","t","e"," ",DQ,"h","r","e","f",DQ," ","e","q","u","a","l","s"," ",DQ,"/","x",DQ>>,
  <<"t","h","e","n"," ","s","e","l","e","c","t","o","r"," ",BT,"a","[","b","]",BT," ","e","x","i","s","t","s">>,
  <<"t","h","e","n"," ","s","e","l","e","c","t","o","r"," ",BT,"a","[","b","=",DQ,"c",DQ,"]",BT," ","e","x","i","s","t","s">>>>

CondSources == UNION {[1..m -> 1..Len(CondLines)] : m \in 1..MaxConds}

CondText(src) ==
  CondHead \o Flatten([k \in 1..Len(src) |-> <<NL, " ", " ", " ", " ">> \o CondLines[src[k]]])

InitCond ==
  /\ source \in CondSources
  /\ text = CondText(source)
  /\ Constructed

SpecCond == InitCond /\ [][Next]_vars

(* the conditions of the first it-block of the first describe, none if there
   is no such it-block *)
FirstConditions(prog) ==
  IF prog.describes # <<>> /\ prog.describes[1].tests # <<>>
  THEN prog.describes[1].tests[1].conditions
  ELSE <<>>

(* C22: the conditions parsed back from the printed it-block are the
   conditions that were printed, one for one, each of the same variant with
   the same field, comparison, value, headerName, jqExpr, callTarget,
   selector and domAssert *)
C22_ConditionRoundTrip ==
  (phase = "reparsed" /\ Len(FirstConditions(program)) = Len(source)) =>
    FirstConditions(reparsed.program) = FirstConditions(program)

----------------------------------------------------------------------------
(* It-blocks: one describe with one it-block written clause by clause: drawn
   mocks, up to MaxLets let bindings, a `when`, drawn with-clauses, a drawn
   `and mock`, and a drawn condition *)

MaxLets == 2

ItHead == <<"d","e","s","c","r","i","b","e"," ",DQ,"d",DQ,NL," "," ","i","t"," ",DQ,"t",DQ>>

ItMocks == <<
  <<>>,
  <<NL," "," "," "," ","w","i","t","h"," ","m","o","c","k"," ","p","g"," ","r","e","t","u","r","n","i","n","g"," ",BT,"[","]",BT>>,
  <<NL," "," "," "," ","w","i","t","h"," ","m","o","c","k"," ","p","g"," ","r","e","t","u","r","n","i","n","g"," ",BT,"[","]",BT,NL," "," "," "," ","w","i","t","h"," ","m","o","c","k"," ","q","u","e","r","y",".","u","s","e","r","s"," ","r","e","t","u","r","n","i","n","g"," ",BT,"{","}",BT>>>>

ItLets == <<
  <<NL," "," "," "," ","l","e","t"," ","a"," ","="," ",BT,"x",BT>>,
  <<NL," "," "," "," ","l","e","t"," ","b"," ","="," ",DQ,"y",DQ>>,
  <<NL," "," "," "," ","l","e","t"," ","c"," ","="," ","n","u","l","l">>,
  <<NL," "," "," "," ","l","e","t"," ","n"," ","="," ","4","2">>>>

ItWhens == <<
  <<NL," "," "," "," ","w","h","e","n"," ","c","a","l","l","i","n","g"," ","G","E","T"," ","/","x">>,
  <<NL," "," "," "," ","w","h","e","n"," ","e","x","e","c","u","t","i","n","g"," ","p","i","p","e","l","i","n","e"," ","p">>>>

ItWiths == <<
  <<>>,
  <<NL," "," "," "," ","w","i","t","h"," ","i","n","p","u","t"," ",BT,"{","}",BT>>,
  <<NL," "," "," "," ","w","i","t","h"," ","c","o","o","k","i","e","s"," ",BT,"c","=","1",BT>>,
  <<NL," "," "," "," ","w","i","t","h"," ","i","n","p","u","t"," ",BT,"{","}",BT,NL," "," "," "," ","a","n","d"," ","w","i","t","h"," ","b","o","d","y"," ",BT,"b",BT>>,
  <<NL," "," "," "," ","w","i","t","h"," ","b","o","d","y"," ",BT,"b",BT,NL," "," "," "," ","a","n","d"," ","w","i","t","h"," ","i","n","p","u","t"," ",BT,"{","}",BT,NL," "," "," "," ","a","n","d"," ","w","i","t","h"," ","h","e","a","d","e","r","s"," ",BT,"h",BT,NL," "," "," "," ","a","n","d"," ","w","i","t","h"," ","c","o","o","k","i","e","s"," ",BT,"c","=","1",BT>>>>

ItAndMock == <<NL," "," "," "," ","a","n","d"," ","m","o","c","k"," ","f","e","t","c","h"," ","r","e","t","u","r","n","i","n","g"," ",BT,"1",BT>>

ItCondition == <<NL," "," "," "," ","t","h","e","n"," ","s","t","a","t","u","s"," ","i","s"," ","2","0","0">>

ItSources ==
  [mocks : 1..Len(ItMocks),
   lets : UNION {[1..m -> 1..Len(ItLets)] : m \in 0..MaxLets},
   when : 1..Len(ItWhens),
   withs : 1..Len(ItWiths),
   andMock : BOOLEAN,
   condition : BOOLEAN]

ItText(src) ==
  ItHead \o ItMocks[src.mocks]
  \o Flatten([k \in 1..Len(src.lets) |-> ItLets[src.lets[k]]])
  \o ItWhens[src.when] \o ItWiths[src.withs]
  \o (IF src.andMock THEN ItAndMock ELSE <<>>)
  \o (IF src.condition THEN ItCondition ELSE <<>>)

InitIt ==
  /\ source \in ItSources
  /\ text = ItText(source)
  /\ Constructed

SpecIt == InitIt /\ [][Next]_vars

(* the it-blocks of the first describe, none if there is no describe *)
FirstTests(prog) == IF prog.describes # <<>> THEN prog.describes[1].tests ELSE <<>>

(* C21: the it-block parsed back from the printed describe is the it-block
   that was printed: the same name, mocks, let bindings (name, value and
   format), when, input, body, headers, cookies and conditions *)
C21_ItRoundTrip ==
  (phase = "reparsed" /\ Len(FirstTests(program)) = 1) =>
    FirstTests(reparsed.program) = FirstTests(program)

----------------------------------------------------------------------------
(* Let scopes: up to MaxBlocks describe blocks, one below the other, with let
   bindings directly under the describe and inside its it-block, the it-block
   whole or broken.  lets: the bindings as written, in order, each with the
   names of the describe and of the it-block it is written in *)

MaxBlocks == 2

ScopeBlocks == <<
  [text |-> <<"d","e","s","c","r","i","b","e"," ",DQ,"d",DQ,NL," "," ","l","e","t"," ","a"," ","="," ","1",NL," "," ","i","t"," ",DQ,"t",DQ,NL," "," "," "," ","l","e","t"," ","b"," ","="," ","2",NL," "," "," "," ","w","h","e","n"," ","c","a","l","l","i","n","g"," ","G","E","T"," ","/","x",NL," "," "," "," ","t","h","e","n"," ","s","t","a","t","u","s"," ","i","s"," ","2","0","0">>,
   lets |-> <<[name |-> <<"a">>, describeName |-> <<"d">>, testName |-> <<>>],
              [name |-> <<"b">>, describeName |-> <<"d">>, testName |-> <<<<"t">>>>]>>],
  [text |-> <<"d","e","s","c","r","i","b","e"," ",DQ,"e",DQ,NL," "," ","i","t"," ",DQ,"u",DQ,NL," "," "," "," ","l","e","t"," ","c"," ","="," ","3",NL," "," "," "," ","t","h","e","n"," ","s","t","a","t","u","s"," ","i","s"," ","2","0","0">>,
   lets |-> <<[name |-> <<"c">>, describeName |-> <<"e">>, testName |-> <<<<"u">>>>]>>],
  [text |-> <<"d","e","s","c","r","i","b","e"," ",DQ,"f",DQ,NL," "," ","l","e","t"," ","g"," ","="," ",BT,"x",BT>>,
   lets |-> <<[name |-> <<"g">>, describeName |-> <<"f">>, testName |-> <<>>]>>],
  [text |-> <<"d","e","s","c","r","i","b","e"," ",DQ,"h",DQ,NL," "," ","i","t"," ",DQ,"v",DQ,NL," "," "," "," ","w","h","e","n"," ","c","a","l","l","i","n","g"," ","G","E","T"," ","/","x",NL," "," "," "," ","t","h","e","n"," ","s","t","a","t","u","s"," ","i","s"," ","2","0","0",NL," "," ","l","e","t"," ","k"," ","="," ",DQ,"y",DQ>>,
   lets |-> <<[name |-> <<"k">>, describeName |-> <<"h">>, testName |-> <<>>]>>],
  [text |-> <<"d","e","s","c","r","i","b","e"," ",DQ,"m",DQ,NL," "," ","l","e","t"," ","n"," ","="," ","4",NL," "," ","i","t"," ",DQ,"w",DQ,NL," "," "," "," ","w","h","e","n"," ","n","o","t","h","i","n","g">>,
   lets |-> <<[name |-> <<"n">>, describeName |-> <<"m">>, testName |-> <<>>]>>]>>

ScopeSources == UNION {[1..m -> 1..Len(ScopeBlocks)] : m \in 1..MaxBlocks}

ScopeText(src) == JoinWith([k \in 1..Len(src) |-> ScopeBlocks[src[k]].text], <<NL, NL>>)

InitScope ==
  /\ source \in ScopeSources
  /\ text = ScopeText(source)
  /\ Constructed

SpecScope == InitScope /\ [][Next]_vars

(* the bindings of the blocks of src as written, in order *)
ScopeWritten(src) == Flatten([k \in 1..Len(src) |-> ScopeBlocks[src[k]].lets])

(* the list getTestLetVariables returns, without the offsets *)
ScopeListed ==
  [k \in 1..Len(testLetVariables) |->
     [name |-> testLetVariables[k].name,
      describeName |-> testLetVariables[k].describeName,
      testName |-> testLetVariables[k].testName]]

(* C30: when the parse has returned, the list of let variables has one entry
   for each let binding written, in order, with the name of the describe it
   is written in, and with the name of the it-block it is written in or no
   test name if it is written directly under the describe *)
C30_LetScopes ==
  phase = "parsed" => ScopeListed = ScopeWritten(source)

====
